---- MODULE Spec2Model ----
(***************************************************************************)
(* Learning Stability Engine of the email assistant: the edit_analyses     *)
(* ledger, the learning_insights rows maintained by the trigger function   *)
(* update_learning_insights_with_stability, the stored function            *)
(* calculate_pattern_stability and the view                                *)
(* validated_learning_insights_with_stability.                             *)
(*                                                                         *)
(* Numbers are fixed point, as the SQL declares them:                      *)
(*   success_score            whole points 0..100                          *)
(*   DECIMAL(5,2)  (rates)    integer count of hundredths                  *)
(*   DECIMAL(8,3)  (mean, variance, trends) integer count of thousandths   *)
(*   DECIMAL(5,3)  (stability_score)        integer count of thousandths   *)
(* A cast to DECIMAL rounds half away from zero.  Time is counted in whole *)
(* days; day 0 is a Monday, so DATE_TRUNC('week', d) is 7 * (d \div 7).     *)
(***************************************************************************)
EXTENDS Integers, Sequences, FiniteSets, Bags, TLC

VARIABLES
    now,            \* CURRENT_TIMESTAMP / CURRENT_DATE, in days
    edit_analyses,  \* table edit_analyses: a bag of committed rows
    learning_insights, \* table learning_insights: pattern_value -> row or NoRow
    probe,          \* argument of the function under evaluation
    result,         \* value the function returned for probe
    tx,             \* connection or worker -> what it is in the middle of, or idle
    emails,         \* table emails: rows keyed by (gmail_id, user_id)
    routed          \* the calls intelligentEmailRouter.routeEmail has received

vars == <<now, edit_analyses, learning_insights, probe, result, tx, emails, routed>>

NoRow == [absent |-> TRUE]
NoProbe == [kind |-> "none"]
NoResult == [kind |-> "none"]

-----------------------------------------------------------------------------
(* Arithmetic helpers *)

Abs(x) == IF x < 0 THEN 0 - x ELSE x

Min(a, b) == IF a <= b THEN a ELSE b

Max(a, b) == IF a >= b THEN a ELSE b

\* numeric rounding of the quotient a / b (a >= 0, b > 0), half away from zero
RoundDiv(a, b) == (2 * a + b) \div (2 * b)

RECURSIVE SeqSum(_)
SeqSum(s) == IF s = <<>> THEN 0 ELSE Head(s) + SeqSum(Tail(s))

\* floor(w * w / 10^8) for 0 <= w < 2^31 without leaving 32-bit integers
SqDiv1e8(w) ==
    LET w0 == w % 10000
        w1 == (w \div 10000) % 10000
        w2 == w \div 100000000
        c0 == w0 * w0
        c1 == 2 * w0 * w1
        c2 == 2 * w0 * w2 + w1 * w1
        c3 == 2 * w1 * w2
        c4 == w2 * w2
    IN  c2 + c3 * 10000 + c4 * 100000000 + ((c0 \div 10000 + c1) \div 10000)

-----------------------------------------------------------------------------
(* Threshold Validator: the three gates of the trigger's threshold_met *)

MinSampleSize == 5

MinConfidence == 65

MinTimeSpanDays == 3

\* the gate with the sample minimum taken as exclusive
threshold_met_exclusive(sample_size, confidence, time_span_days) ==
    /\ sample_size > MinSampleSize
    /\ confidence >= MinConfidence
    /\ time_span_days >= MinTimeSpanDays

threshold_met(sample_size, confidence, time_span_days) ==
    /\ sample_size >= MinSampleSize
    /\ confidence >= MinConfidence
    /\ time_span_days >= MinTimeSpanDays

-----------------------------------------------------------------------------
(* Pattern Validation Aggregator: the CASE expression of the view *)

\* the CASE with the drift arm moved above the unstable arm
validation_status_drift_first(r) ==
    IF r.threshold_met /\ r.stability_validated /\ ~r.pattern_drift_detected
        THEN "FULLY_VALIDATED"
    ELSE IF r.threshold_met /\ r.pattern_drift_detected
        THEN "PATTERN_DRIFT_DETECTED"
    ELSE IF r.threshold_met /\ ~r.stability_validated
        THEN "THRESHOLD_MET_BUT_UNSTABLE"
    ELSE IF r.stability_validated /\ ~r.threshold_met
        THEN "STABLE_BUT_INSUFFICIENT_DATA"
    ELSE IF r.sample_size >= 5 /\ r.confidence < 65
        THEN "INSUFFICIENT_CONFIDENCE"
    ELSE IF r.sample_size >= 5 /\ r.time_span_days < 3
        THEN "INSUFFICIENT_TIME_SPAN"
    ELSE IF r.sample_size < 5
        THEN "INSUFFICIENT_SAMPLES"
    ELSE "PENDING_VALIDATION"

\* the CASE with the first arm not looking at the drift flag
validation_status_ignores_drift(r) ==
    IF r.threshold_met /\ r.stability_validated
        THEN "FULLY_VALIDATED"
    ELSE IF r.threshold_met /\ ~r.stability_validated
        THEN "THRESHOLD_MET_BUT_UNSTABLE"
    ELSE IF r.threshold_met /\ r.pattern_drift_detected
        THEN "PATTERN_DRIFT_DETECTED"
    ELSE IF r.stability_validated /\ ~r.threshold_met
        THEN "STABLE_BUT_INSUFFICIENT_DATA"
    ELSE IF r.sample_size >= 5 /\ r.confidence < 65
        THEN "INSUFFICIENT_CONFIDENCE"
    ELSE IF r.sample_size >= 5 /\ r.time_span_days < 3
        THEN "INSUFFICIENT_TIME_SPAN"
    ELSE IF r.sample_size < 5
        THEN "INSUFFICIENT_SAMPLES"
    ELSE "PENDING_VALIDATION"

\* the CASE without its ELSE arm: no WHEN matching gives NULL
validation_status_no_else(r) ==
    IF r.threshold_met /\ r.stability_validated /\ ~r.pattern_drift_detected
        THEN "FULLY_VALIDATED"
    ELSE IF r.threshold_met /\ ~r.stability_validated
        THEN "THRESHOLD_MET_BUT_UNSTABLE"
    ELSE IF r.threshold_met /\ r.pattern_drift_detected
        THEN "PATTERN_DRIFT_DETECTED"
    ELSE IF r.stability_validated /\ ~r.threshold_met
        THEN "STABLE_BUT_INSUFFICIENT_DATA"
    ELSE IF r.sample_size >= 5 /\ r.confidence < 65
        THEN "INSUFFICIENT_CONFIDENCE"
    ELSE IF r.sample_size >= 5 /\ r.time_span_days < 3
        THEN "INSUFFICIENT_TIME_SPAN"
    ELSE IF r.sample_size < 5
        THEN "INSUFFICIENT_SAMPLES"
    ELSE "NULL"

\* the CASE with the first arm looking at the threshold and the drift flag only
validation_status_ignores_stability(r) ==
    IF r.threshold_met /\ ~r.pattern_drift_detected
        THEN "FULLY_VALIDATED"
    ELSE IF r.threshold_met /\ ~r.stability_validated
        THEN "THRESHOLD_MET_BUT_UNSTABLE"
    ELSE IF r.threshold_met /\ r.pattern_drift_detected
        THEN "PATTERN_DRIFT_DETECTED"
    ELSE IF r.stability_validated /\ ~r.threshold_met
        THEN "STABLE_BUT_INSUFFICIENT_DATA"
    ELSE IF r.sample_size >= 5 /\ r.confidence < 65
        THEN "INSUFFICIENT_CONFIDENCE"
    ELSE IF r.sample_size >= 5 /\ r.time_span_days < 3
        THEN "INSUFFICIENT_TIME_SPAN"
    ELSE IF r.sample_size < 5
        THEN "INSUFFICIENT_SAMPLES"
    ELSE "PENDING_VALIDATION"

\* the CASE with confidence < 60 in the INSUFFICIENT_CONFIDENCE arm
validation_status_confidence_60(r) ==
    IF r.threshold_met /\ r.stability_validated /\ ~r.pattern_drift_detected
        THEN "FULLY_VALIDATED"
    ELSE IF r.threshold_met /\ ~r.stability_validated
        THEN "THRESHOLD_MET_BUT_UNSTABLE"
    ELSE IF r.threshold_met /\ r.pattern_drift_detected
        THEN "PATTERN_DRIFT_DETECTED"
    ELSE IF r.stability_validated /\ ~r.threshold_met
        THEN "STABLE_BUT_INSUFFICIENT_DATA"
    ELSE IF r.sample_size >= 5 /\ r.confidence < 60
        THEN "INSUFFICIENT_CONFIDENCE"
    ELSE IF r.sample_size >= 5 /\ r.time_span_days < 3
        THEN "INSUFFICIENT_TIME_SPAN"
    ELSE IF r.sample_size < 5
        THEN "INSUFFICIENT_SAMPLES"
    ELSE "PENDING_VALIDATION"

validation_status(r) ==
    IF r.threshold_met /\ r.stability_validated /\ ~r.pattern_drift_detected
        THEN "FULLY_VALIDATED"
    ELSE IF r.threshold_met /\ ~r.stability_validated
        THEN "THRESHOLD_MET_BUT_UNSTABLE"
    ELSE IF r.threshold_met /\ r.pattern_drift_detected
        THEN "PATTERN_DRIFT_DETECTED"
    ELSE IF r.stability_validated /\ ~r.threshold_met
        THEN "STABLE_BUT_INSUFFICIENT_DATA"
    ELSE IF r.sample_size >= 5 /\ r.confidence < 65
        THEN "INSUFFICIENT_CONFIDENCE"
    ELSE IF r.sample_size >= 5 /\ r.time_span_days < 3
        THEN "INSUFFICIENT_TIME_SPAN"
    ELSE IF r.sample_size < 5
        THEN "INSUFFICIENT_SAMPLES"
    ELSE "PENDING_VALIDATION"

-----------------------------------------------------------------------------
(* Weekly Aggregator and Stability Analyzer: calculate_pattern_stability *)

NullUser == "NULL"

LookbackDays == 56

MinWeekCount == 2

MinWeeks == 3

MinDriftWeeks == 4

DriftThreshold == 20000

StableThreshold == 700

week_start(d) == 7 * (d \div 7)

\* the WHERE clause without ea.edit_type = pattern_value_param
MatchingRows_any_pattern(table, today, pattern_value_param, user_id_param) ==
    { e \in BagToSet(table) :
        /\ e.created_at >= today - LookbackDays
        /\ (user_id_param = NullUser \/ e.user_id = user_id_param) }

\* rows of the table selected by the WHERE clause of the weekly query
MatchingRows(table, today, pattern_value_param, user_id_param) ==
    { e \in BagToSet(table) :
        /\ e.edit_type = pattern_value_param
        /\ e.created_at >= today - LookbackDays
        /\ (user_id_param = NullUser \/ e.user_id = user_id_param) }

RECURSIVE BagSetSum(_, _, _)
\* sum of f[e] * copies over a set of distinct rows of the bag
BagSetSum(table, S, scoreOnly) ==
    IF S = {} THEN 0
    ELSE LET e == CHOOSE x \in S : TRUE
         IN  CopiesIn(e, table) * (IF scoreOnly THEN e.success_score ELSE 1)
             + BagSetSum(table, S \ {e}, scoreOnly)

RECURSIVE SortDescending(_)
\* the elements of a set of numbers, largest first
SortDescending(S) ==
    IF S = {} THEN <<>>
    ELSE LET m == CHOOSE x \in S : \A y \in S : y <= x
         IN  <<m>> \o SortDescending(S \ {m})

RECURSIVE SortAscending(_)
SortAscending(S) ==
    IF S = {} THEN <<>>
    ELSE LET m == CHOOSE x \in S : \A y \in S : x <= y
         IN  <<m>> \o SortAscending(S \ {m})

\* the weekly query with ORDER BY week_start DESC
weekly_rates_newest_first(table, today, pattern_value_param, user_id_param) ==
    LET rows == MatchingRows(table, today, pattern_value_param, user_id_param)
        inWeek(w) == { e \in rows : week_start(e.created_at) = w }
        cnt(w) == BagSetSum(table, inWeek(w), FALSE)
        weeks == { w \in { week_start(e.created_at) : e \in rows } :
                     cnt(w) >= MinWeekCount }
        ordered == SortDescending(weeks)
    IN  [ i \in 1..Len(ordered) |->
            RoundDiv(100 * BagSetSum(table, inWeek(ordered[i]), TRUE),
                     cnt(ordered[i])) ]

\* GROUP BY week HAVING COUNT(*) >= 2 ORDER BY week_start, each AVG cast to
\* DECIMAL(5,2): the success_rates array (hundredths)
weekly_rates(table, today, pattern_value_param, user_id_param) ==
    LET rows == MatchingRows(table, today, pattern_value_param, user_id_param)
        inWeek(w) == { e \in rows : week_start(e.created_at) = w }
        cnt(w) == BagSetSum(table, inWeek(w), FALSE)
        weeks == { w \in { week_start(e.created_at) : e \in rows } :
                     cnt(w) >= MinWeekCount }
        ordered == SortAscending(weeks)
    IN  [ i \in 1..Len(ordered) |->
            RoundDiv(100 * BagSetSum(table, inWeek(ordered[i]), TRUE),
                     cnt(ordered[i])) ]

\* AVG(rate::DECIMAL(8,3)) assigned to a DECIMAL(8,3) variable (thousandths)
mean_rate(rates) == RoundDiv(10 * SeqSum(rates), Len(rates))

\* AVG(POWER(rate - mean_rate, 2)) assigned to DECIMAL(8,3) (thousandths).
\* With d = |10*rate - mean| = 1000*q + r, the sum of d*d is 1000*A + B.
variance_calc(rates) ==
    LET m == mean_rate(rates)
        n == Len(rates)
        d(i) == Abs(10 * rates[i] - m)
        q(i) == d(i) \div 1000
        r(i) == d(i) % 1000
        A == SeqSum([ i \in 1..n |-> 1000 * q(i) * q(i) + 2 * q(i) * r(i) ])
        B == SeqSum([ i \in 1..n |-> r(i) * r(i) ])
    IN  (A + ((B + 500 * n) \div 1000)) \div n

\* 1 - SQRT(v)/m cast to DECIMAL(5,3) is at least k/1000 (k >= 1) iff
\* 1000*SQRT(v)/m <= 1000.5 - k  iff  4*10^9*V <= ((2001 - 2k)*M)^2
ScoreAtLeast(k, V, M) == 40 * V <= SqDiv1e8((2001 - 2 * k) * M)

RECURSIVE LargestScore(_, _, _, _)
\* the largest k in lo..hi with ScoreAtLeast(k), given ScoreAtLeast(lo) or lo = 0
LargestScore(lo, hi, V, M) ==
    IF lo >= hi THEN lo
    ELSE LET mid == (lo + hi + 1) \div 2
         IN  IF ScoreAtLeast(mid, V, M)
             THEN LargestScore(mid, hi, V, M)
             ELSE LargestScore(lo, mid - 1, V, M)

stability_calc_truncated(rates) ==
    LET M == mean_rate(rates)
        V == variance_calc(rates)
        atLeast(k) == 40 * V <= SqDiv1e8((2000 - 2 * k) * M)
        hit == { k \in 1..1000 : atLeast(k) }
    IN  IF M > 0 /\ hit /= {}
        THEN CHOOSE k \in hit : \A j \in hit : j <= k
        ELSE 0

\* LEAST(1, (1 - SQRT(variance)/mean)::DECIMAL(5,3)) without the GREATEST(0, ...)
stability_calc_no_floor(rates) ==
    LET M == mean_rate(rates)
        V == variance_calc(rates)
    IN  IF M > 0 THEN LargestScore(0 - 2000, 1000, V, M) ELSE 0

\* GREATEST(0, LEAST(1, (1 - SQRT(variance)/mean)::DECIMAL(5,3))), or 0
stability_calc(rates) ==
    LET M == mean_rate(rates)
        V == variance_calc(rates)
    IN  IF M > 0 THEN LargestScore(0, 1000, V, M) ELSE 0

drift_last_week_vs_prior(rates) ==
    LET n == Len(rates)
    IN  IF n >= MinDriftWeeks
        THEN Abs(10 * rates[n]
                   - RoundDiv(10 * SeqSum(SubSeq(rates, 1, n - 1)), n - 1))
               > DriftThreshold
        ELSE FALSE

\* recent two weeks against the weeks before them, both as DECIMAL(8,3)
drift_detected_calc(rates) ==
    LET n == Len(rates)
    IN  IF n >= MinDriftWeeks
        THEN LET recent_trend == RoundDiv(10 * (rates[n - 1] + rates[n]), 2)
                 historical_trend ==
                     RoundDiv(10 * SeqSum(SubSeq(rates, 1, n - 2)), n - 2)
             IN  Abs(recent_trend - historical_trend) > DriftThreshold
        ELSE FALSE

\* rate_count IS NULL: array_length(success_rates, 1) is NULL for an array
\* nothing was appended to
rate_count_is_null(rates) == rates = <<>>

DefaultScore == 500

analyze_rates_no_null_guard(rates) ==
    IF rates = <<>>
    THEN [ stability_score |-> 0, pattern_variance |-> 0,
           weekly_rates |-> rates, is_stable |-> FALSE,
           drift_detected |-> FALSE ]
    ELSE IF Len(rates) < MinWeeks
    THEN [ stability_score |-> DefaultScore, pattern_variance |-> 0,
           weekly_rates |-> rates, is_stable |-> FALSE,
           drift_detected |-> FALSE ]
    ELSE [ stability_score |-> stability_calc(rates),
           pattern_variance |-> variance_calc(rates),
           weekly_rates |-> rates,
           is_stable |-> stability_calc(rates) >= StableThreshold,
           drift_detected |-> drift_detected_calc(rates) ]

\* the body of calculate_pattern_stability after the weekly loop
analyze_rates(rates) ==
    IF rate_count_is_null(rates) \/ Len(rates) < MinWeeks
    THEN [ stability_score |-> DefaultScore, pattern_variance |-> 0,
           weekly_rates |-> rates, is_stable |-> FALSE,
           drift_detected |-> FALSE ]
    ELSE [ stability_score |-> stability_calc(rates),
           pattern_variance |-> variance_calc(rates),
           weekly_rates |-> rates,
           is_stable |-> stability_calc(rates) >= StableThreshold,
           drift_detected |-> drift_detected_calc(rates) ]

calculate_pattern_stability(table, today, pattern_value_param, user_id_param) ==
    analyze_rates(weekly_rates(table, today, pattern_value_param, user_id_param))
-----------------------------------------------------------------------------
(* Confidence Recalculator and trigger: update_learning_insights_with_stability *)

InitialConfidence == 50

ConfidenceStep == 2

MaxConfidence == 90

\* INSERT ... VALUES (...) ON CONFLICT (pattern_type, pattern_value) DO UPDATE
\* SET ...: the row the statement leaves, from the row it found (or NoRow).
\* success_rate is kept in hundredths; the stability columns of a new row
\* hold the column defaults until the trigger's UPDATE below sets them.
upsert_row_keeps_sample(old, success_score, today) ==
    IF old = NoRow
    THEN [ frequency |-> 1,
           success_rate |-> 100 * success_score,
           confidence |-> InitialConfidence,
           sample_size |-> 1,
           time_span_days |-> 1,
           first_occurrence |-> today,
           threshold_met |-> FALSE,
           stability_score |-> 500,
           pattern_variance |-> 0,
           weekly_success_rates |-> <<>>,
           stability_validated |-> FALSE,
           pattern_drift_detected |-> FALSE,
           last_updated |-> today ]
    ELSE [ old EXCEPT
           !.frequency = Max(old.frequency + 1, 1),
           !.confidence = Min(MaxConfidence, old.confidence + ConfidenceStep),
           !.last_updated = today ]

\* threshold_met taken from the columns as they were before the update
upsert_row_stale_threshold(old, success_score, today) ==
    IF old = NoRow
    THEN [ frequency |-> 1,
           success_rate |-> 100 * success_score,
           confidence |-> InitialConfidence,
           sample_size |-> 1,
           time_span_days |-> 1,
           first_occurrence |-> today,
           threshold_met |-> FALSE,
           stability_score |-> 500,
           pattern_variance |-> 0,
           weekly_success_rates |-> <<>>,
           stability_validated |-> FALSE,
           pattern_drift_detected |-> FALSE,
           last_updated |-> today ]
    ELSE [ old EXCEPT
           !.frequency = Max(old.frequency + 1, 1),
           !.success_rate =
               IF old.frequency > 0
               THEN RoundDiv(old.success_rate * old.frequency + 100 * success_score,
                             old.frequency + 1)
               ELSE 100 * success_score,
           !.confidence = Min(MaxConfidence, old.confidence + ConfidenceStep),
           !.sample_size = old.frequency + 1,
           !.time_span_days = Max(1, today - old.first_occurrence),
           !.threshold_met =
               threshold_met(old.sample_size, old.confidence, old.time_span_days),
           !.last_updated = today ]

\* the upsert with first_occurrence = CURRENT_TIMESTAMP in the SET clause
upsert_row_moves_first_occurrence(old, success_score, today) ==
    IF old = NoRow
    THEN [ frequency |-> 1,
           success_rate |-> 100 * success_score,
           confidence |-> InitialConfidence,
           sample_size |-> 1,
           time_span_days |-> 1,
           first_occurrence |-> today,
           threshold_met |-> FALSE,
           stability_score |-> 500,
           pattern_variance |-> 0,
           weekly_success_rates |-> <<>>,
           stability_validated |-> FALSE,
           pattern_drift_detected |-> FALSE,
           last_updated |-> today ]
    ELSE [ old EXCEPT
           !.frequency = Max(old.frequency + 1, 1),
           !.success_rate =
               IF old.frequency > 0
               THEN RoundDiv(old.success_rate * old.frequency + 100 * success_score,
                             old.frequency + 1)
               ELSE 100 * success_score,
           !.confidence = Min(MaxConfidence, old.confidence + ConfidenceStep),
           !.sample_size = old.frequency + 1,
           !.time_span_days = Max(1, today - old.first_occurrence),
           !.threshold_met =
               threshold_met(old.frequency + 1,
                             Min(MaxConfidence, old.confidence + ConfidenceStep),
                             Max(1, today - old.first_occurrence)),
           !.first_occurrence = today,
           !.last_updated = today ]

\* the upsert with threshold_met from the sample and time gates only
upsert_row_no_confidence_gate(old, success_score, today) ==
    IF old = NoRow
    THEN [ frequency |-> 1,
           success_rate |-> 100 * success_score,
           confidence |-> InitialConfidence,
           sample_size |-> 1,
           time_span_days |-> 1,
           first_occurrence |-> today,
           threshold_met |-> FALSE,
           stability_score |-> 500,
           pattern_variance |-> 0,
           weekly_success_rates |-> <<>>,
           stability_validated |-> FALSE,
           pattern_drift_detected |-> FALSE,
           last_updated |-> today ]
    ELSE [ old EXCEPT
           !.frequency = Max(old.frequency + 1, 1),
           !.success_rate =
               IF old.frequency > 0
               THEN RoundDiv(old.success_rate * old.frequency + 100 * success_score,
                             old.frequency + 1)
               ELSE 100 * success_score,
           !.confidence = Min(MaxConfidence, old.confidence + ConfidenceStep),
           !.sample_size = old.frequency + 1,
           !.time_span_days = Max(1, today - old.first_occurrence),
           !.threshold_met =
               /\ old.frequency + 1 >= MinSampleSize
               /\ Max(1, today - old.first_occurrence) >= MinTimeSpanDays,
           !.last_updated = today ]

\* the upsert with success_rate = (success_rate + NEW.success_score) / 2
upsert_row_plain_average(old, success_score, today) ==
    IF old = NoRow
    THEN [ frequency |-> 1,
           success_rate |-> 100 * success_score,
           confidence |-> InitialConfidence,
           sample_size |-> 1,
           time_span_days |-> 1,
           first_occurrence |-> today,
           threshold_met |-> FALSE,
           stability_score |-> 500,
           pattern_variance |-> 0,
           weekly_success_rates |-> <<>>,
           stability_validated |-> FALSE,
           pattern_drift_detected |-> FALSE,
           last_updated |-> today ]
    ELSE [ old EXCEPT
           !.frequency = Max(old.frequency + 1, 1),
           !.success_rate =
               IF old.frequency > 0
               THEN RoundDiv(old.success_rate + 100 * success_score, 2)
               ELSE 100 * success_score,
           !.confidence = Min(MaxConfidence, old.confidence + ConfidenceStep),
           !.sample_size = old.frequency + 1,
           !.time_span_days = Max(1, today - old.first_occurrence),
           !.threshold_met =
               threshold_met(old.frequency + 1,
                             Min(MaxConfidence, old.confidence + ConfidenceStep),
                             Max(1, today - old.first_occurrence)),
           !.last_updated = today ]

\* the upsert with confidence = learning_insights.confidence + 2, no LEAST
upsert_row_uncapped(old, success_score, today) ==
    IF old = NoRow
    THEN [ frequency |-> 1,
           success_rate |-> 100 * success_score,
           confidence |-> InitialConfidence,
           sample_size |-> 1,
           time_span_days |-> 1,
           first_occurrence |-> today,
           threshold_met |-> FALSE,
           stability_score |-> 500,
           pattern_variance |-> 0,
           weekly_success_rates |-> <<>>,
           stability_validated |-> FALSE,
           pattern_drift_detected |-> FALSE,
           last_updated |-> today ]
    ELSE [ old EXCEPT
           !.frequency = Max(old.frequency + 1, 1),
           !.success_rate =
               IF old.frequency > 0
               THEN RoundDiv(old.success_rate * old.frequency + 100 * success_score,
                             old.frequency + 1)
               ELSE 100 * success_score,
           !.confidence = old.confidence + ConfidenceStep,
           !.sample_size = old.frequency + 1,
           !.time_span_days = Max(1, today - old.first_occurrence),
           !.threshold_met =
               threshold_met(old.frequency + 1,
                             Min(MaxConfidence, old.confidence + ConfidenceStep),
                             Max(1, today - old.first_occurrence)),
           !.last_updated = today ]

upsert_row(old, success_score, today) ==
    IF old = NoRow
    THEN [ frequency |-> 1,
           success_rate |-> 100 * success_score,
           confidence |-> InitialConfidence,
           sample_size |-> 1,
           time_span_days |-> 1,
           first_occurrence |-> today,
           threshold_met |-> FALSE,
           stability_score |-> 500,
           pattern_variance |-> 0,
           weekly_success_rates |-> <<>>,
           stability_validated |-> FALSE,
           pattern_drift_detected |-> FALSE,
           last_updated |-> today ]
    ELSE [ old EXCEPT
           !.frequency = Max(old.frequency + 1, 1),
           !.success_rate =
               IF old.frequency > 0
               THEN RoundDiv(old.success_rate * old.frequency + 100 * success_score,
                             old.frequency + 1)
               ELSE 100 * success_score,
           !.confidence = Min(MaxConfidence, old.confidence + ConfidenceStep),
           !.sample_size = old.frequency + 1,
           !.time_span_days = Max(1, today - old.first_occurrence),
           !.threshold_met =
               threshold_met(old.frequency + 1,
                             Min(MaxConfidence, old.confidence + ConfidenceStep),
                             Max(1, today - old.first_occurrence)),
           !.last_updated = today ]

\* UPDATE learning_insights SET stability_score = ..., ... WHERE key
set_stability(row, stability_data) ==
    [ row EXCEPT
      !.stability_score = stability_data.stability_score,
      !.pattern_variance = stability_data.pattern_variance,
      !.weekly_success_rates = stability_data.weekly_rates,
      !.stability_validated = stability_data.is_stable,
      !.pattern_drift_detected = stability_data.drift_detected ]

\* the trigger calling calculate_pattern_stability('edit_type', NEW.edit_type)
\* without the user
update_learning_insights_all_users(table, old, new_row, today) ==
    set_stability(upsert_row(old, new_row.success_score, today),
                  calculate_pattern_stability(table, today, new_row.edit_type,
                                              NullUser))

\* the whole trigger body for the inserted row (NEW in the SQL), which the table already
\* holds when the function runs: upsert, stability calculation, update
update_learning_insights_with_stability(table, old, new_row, today) ==
    set_stability(upsert_row(old, new_row.success_score, today),
                  calculate_pattern_stability(table, today, new_row.edit_type,
                                              new_row.user_id))
-----------------------------------------------------------------------------
(* The store: edit events arrive, the trigger recomputes the owning row *)

AllPatterns == {"tone", "content", "mixed"}

KeyPatterns == {"tone", "content"}

AllUsers == {"u1", "u2"}

MainPatterns == {"tone"}

MainUsers == {"u1"}

Scores == {25, 85}

TickDays == {7}

MaxEvents == 9

MaxWeek == 3

MaxKeyEvents == 4

MaxKeyWeek == 1

NumProcs == 2

Procs == 1..NumProcs

Idle == [ pc |-> "idle" ]

EmptyStore ==
    /\ now = 0
    /\ edit_analyses = EmptyBag
    /\ learning_insights = [ p \in AllPatterns |-> NoRow ]
    /\ tx = [ c \in Procs |-> Idle ]
    /\ emails = {}
    /\ routed = EmptyBag

Init ==
    /\ EmptyStore
    /\ probe = NoProbe
    /\ result = NoResult

\* time passes
Tick(maxWeek) ==
    /\ \E d \in TickDays :
        /\ now + d <= 7 * maxWeek
        /\ now' = now + d
    /\ UNCHANGED <<edit_analyses, learning_insights, probe, result, tx, emails, routed>>

\* INSERT INTO edit_analyses (... created_at defaults to CURRENT_TIMESTAMP)
\* as storeEditAnalysis issues it; the trigger runs in the same statement
RecordEdit(patterns, users, maxEvents) ==
    /\ BagCardinality(edit_analyses) < maxEvents
    /\ \E p \in patterns, u \in users, sc \in Scores :
        LET new_row == [ edit_type |-> p, success_score |-> sc,
                         user_id |-> u, created_at |-> now ]
            table == edit_analyses (+) SetToBag({new_row})
        IN  /\ edit_analyses' = table
            /\ learning_insights' =
                 [ learning_insights EXCEPT
                   ![p] = update_learning_insights_with_stability(
                              table, learning_insights[p], new_row, now) ]
    /\ UNCHANGED <<now, probe, result, tx, emails, routed>>

Next ==
    \/ Tick(MaxWeek)
    \/ RecordEdit(MainPatterns, MainUsers, MaxEvents)

Spec == Init /\ [][Next]_vars

\* the same store with several pattern keys and users
NextKeys ==
    \/ Tick(MaxKeyWeek)
    \/ RecordEdit(KeyPatterns, AllUsers, MaxKeyEvents)

SpecKeys == Init /\ [][NextKeys]_vars
-----------------------------------------------------------------------------
(* Evaluating one function on one argument: the argument is drawn in the   *)
(* initial state, the step stores what the function returns.               *)

MaxProbeSamples == 7

MaxProbeDays == 5

ProbeSpread == 3

ProbeConfidences == (MinConfidence - ProbeSpread)..(MinConfidence + ProbeSpread)

ThresholdProbes ==
    [ kind : {"threshold"}, sample_size : 0..MaxProbeSamples,
      confidence : ProbeConfidences, time_span_days : 0..MaxProbeDays ]

InitThreshold ==
    /\ EmptyStore
    /\ probe \in ThresholdProbes
    /\ result = NoResult

EvalThreshold ==
    /\ probe.kind = "threshold"
    /\ result = NoResult
    /\ result' = [ kind |-> "threshold",
                   value |-> threshold_met(probe.sample_size, probe.confidence,
                                           probe.time_span_days) ]
    /\ UNCHANGED <<now, edit_analyses, learning_insights, probe, tx, emails, routed>>

SpecThreshold == InitThreshold /\ [][EvalThreshold]_vars

\* rows of the view: every combination of the columns the CASE reads
StatusProbes ==
    [ kind : {"status"}, threshold_met : BOOLEAN, stability_validated : BOOLEAN,
      pattern_drift_detected : BOOLEAN, sample_size : 3..MaxProbeSamples,
      confidence : ProbeConfidences, time_span_days : 1..MaxProbeDays ]

InitStatus ==
    /\ EmptyStore
    /\ probe \in StatusProbes
    /\ result = NoResult

EvalStatus ==
    /\ probe.kind = "status"
    /\ result = NoResult
    /\ result' = [ kind |-> "status", value |-> validation_status(probe) ]
    /\ UNCHANGED <<now, edit_analyses, learning_insights, probe, tx, emails, routed>>

SpecStatus == InitStatus /\ [][EvalStatus]_vars

\* the same row of the view read a second time
EvalStatusAgain ==
    /\ probe.kind = "status"
    /\ result.kind = "status"
    /\ DOMAIN result = {"kind", "value"}
    /\ result' = [ kind |-> "status", value |-> result.value,
                   again |-> validation_status(probe) ]
    /\ UNCHANGED <<now, edit_analyses, learning_insights, probe, tx, emails, routed>>

SpecStatusTwice == InitStatus /\ [][EvalStatus \/ EvalStatusAgain]_vars
-----------------------------------------------------------------------------
(* The consumer's query over the view, run on a store that earlier edit    *)
(* events have filled: each pattern had perWeek events of one score in     *)
(* each of three consecutive weeks.                                        *)

MaxPerWeek == 4

ScenarioWeeks == 3

Scenarios == [ perWeek : 0..MaxPerWeek, score : Scores ]

\* the events of one scenario, in the order they were recorded
ScenarioEvents(p, sc) ==
    [ i \in 1..(ScenarioWeeks * sc.perWeek) |->
        [ edit_type |-> p, success_score |-> sc.score, user_id |-> "u1",
          created_at |-> 7 * ((i - 1) \div sc.perWeek) ] ]

RECURSIVE Replay(_, _)
\* the store after recording the events one by one, each at its own day:
\* <<edit_analyses, learning_insights>>
Replay(events, store) ==
    IF events = <<>> THEN store
    ELSE LET new_row == Head(events)
             table == store[1] (+) SetToBag({new_row})
             p == new_row.edit_type
         IN  Replay(Tail(events),
                    << table,
                       [ store[2] EXCEPT
                         ![p] = update_learning_insights_with_stability(
                                    table, store[2][p], new_row,
                                    new_row.created_at) ] >>)

InitQuery ==
    /\ \E a \in Scenarios, b \in Scenarios :
        LET store == Replay(ScenarioEvents("tone", a) \o ScenarioEvents("content", b),
                            << EmptyBag, [ p \in AllPatterns |-> NoRow ] >>)
        IN  /\ edit_analyses = store[1]
            /\ learning_insights = store[2]
    /\ tx = [ c \in Procs |-> Idle ]
    /\ emails = {}
    /\ routed = EmptyBag
    /\ now = 7 * (ScenarioWeeks - 1)
    /\ probe = [ kind |-> "query" ]
    /\ result = NoResult

\* every ordering of a finite set
Orderings(S) ==
    { q \in [ 1..Cardinality(S) -> S ] :
        \A i, j \in 1..Cardinality(S) : i /= j => q[i] /= q[j] }

\* SELECT ... FROM validated_learning_insights_with_stability
\* WHERE validation_status = 'FULLY_VALIDATED' ORDER BY stability_score DESC:
\* the pattern values in every order the ORDER BY allows (rows with equal
\* stability_score come in an order SQL leaves open)
enhancedQuery(insights) ==
    LET hits == { p \in AllPatterns :
                    /\ insights[p] /= NoRow
                    /\ validation_status(insights[p]) = "FULLY_VALIDATED" }
    IN  { q \in Orderings(hits) :
            \A i, j \in 1..Len(q) :
                i < j => insights[q[i]].stability_score
                           >= insights[q[j]].stability_score }

RunQuery ==
    /\ probe.kind = "query"
    /\ result = NoResult
    /\ \E q \in enhancedQuery(learning_insights) :
        result' = [ kind |-> "query", rows |-> q ]
    /\ UNCHANGED <<now, edit_analyses, learning_insights, probe, tx, emails, routed>>

SpecQuery == InitQuery /\ [][RunQuery]_vars

-----------------------------------------------------------------------------
(* The stability calculation on its own: weekly series (hundredths of a    *)
(* point, oldest week first) handed to the body of the function.           *)

MaxSeriesLen == 4

ProbeRates == {0, 3000, 5000, 8000}

SeriesA == <<8500, 8800, 8200, 8700, 9000>>

SeriesB == <<8500, 4500, 8000, 3000, 7500>>

ReferenceSeries ==
    { SeriesA, SeriesB, <<1500, 1600, 2800>>, <<5000, 5000, 5000, 8000>>,
      <<5000, 5000, 8000, 7000>> }

ProbeSeries ==
    UNION { [ 1..n -> ProbeRates ] : n \in 0..MaxSeriesLen } \cup ReferenceSeries

InitStability ==
    /\ EmptyStore
    /\ \E rates \in ProbeSeries, other \in ReferenceSeries :
         probe = [ kind |-> "series", rates |-> rates, other |-> other ]
    /\ result = NoResult

EvalStability ==
    /\ probe.kind = "series"
    /\ result = NoResult
    /\ result' = [ kind |-> "stability" ] @@ analyze_rates(probe.rates)
    /\ UNCHANGED <<now, edit_analyses, learning_insights, probe, tx, emails, routed>>

SpecStability == InitStability /\ [][EvalStability]_vars

-----------------------------------------------------------------------------
(* Scripted recordings: one pattern, one user, a fixed list of scores per  *)
(* week.  Each edit is stored when it happens (created_at = now) and the   *)
(* trigger runs for it; the clock moves to the next week between weeks.    *)

MaxScriptWeeks == 5

MaxScriptPerWeek == 3

HighScore == 80

LowScore == 30

\* every week holds n edits of that week's score
Flat(series, n) == [ w \in 1..Len(series) |-> [ j \in 1..n |-> series[w] ] ]

\* the edits alternate between the two scores, n of them per week
AlternatingEvents(weeks, n) ==
    [ w \in 1..weeks |->
        [ j \in 1..n |-> IF ((w - 1) * n + j) % 2 = 1 THEN HighScore ELSE LowScore ] ]

\* the weeks alternate between the two scores
AlternatingWeeks(weeks) ==
    [ w \in 1..weeks |-> IF w % 2 = 1 THEN HighScore ELSE LowScore ]

DecliningMiddles == {75, 60, 45, 30}

\* weekly scores falling from 90 to 20 over five or more weeks
DecliningSeries ==
    { <<90>> \o SortDescending(S) \o <<20>> :
        S \in { T \in SUBSET DecliningMiddles : Cardinality(T) >= 3 } }
    \cup { <<90, 85, 75, 60, 45, 30, 20>>, <<90, 25, 24, 23, 22, 21, 20>> }

Scripts ==
    { [ name |-> "declining", weeks |-> Flat(series, n) ] :
        series \in DecliningSeries, n \in 2..MaxScriptPerWeek }
    \cup { [ name |-> "alternating_weeks", weeks |-> Flat(AlternatingWeeks(k), n) ] :
        k \in 3..MaxScriptWeeks, n \in 2..MaxScriptPerWeek }
    \cup { [ name |-> "alternating_events", weeks |-> AlternatingEvents(k, n) ] :
        k \in 3..MaxScriptWeeks, n \in 2..MaxScriptPerWeek }

InitScript ==
    /\ EmptyStore
    /\ \E script \in Scripts :
         probe = [ kind |-> "script" ] @@ script
    /\ result = [ kind |-> "played", week |-> 1, done |-> 0 ]

ScriptFinished ==
    /\ result.week = Len(probe.weeks)
    /\ result.done = Len(probe.weeks[result.week])

\* the next edit of the current week is recorded
ScriptRecord ==
    /\ probe.kind = "script"
    /\ result.done < Len(probe.weeks[result.week])
    /\ LET new_row == [ edit_type |-> "tone",
                        success_score |-> probe.weeks[result.week][result.done + 1],
                        user_id |-> "u1", created_at |-> now ]
           table == edit_analyses (+) SetToBag({new_row})
       IN  /\ edit_analyses' = table
           /\ learning_insights' =
                [ learning_insights EXCEPT
                  !["tone"] = update_learning_insights_with_stability(
                                  table, learning_insights["tone"], new_row, now) ]
    /\ result' = [ result EXCEPT !.done = result.done + 1 ]
    /\ UNCHANGED <<now, probe, tx, emails, routed>>

\* the week is over: a week passes before the next edit
ScriptTick ==
    /\ probe.kind = "script"
    /\ result.done = Len(probe.weeks[result.week])
    /\ result.week < Len(probe.weeks)
    /\ now' = now + 7
    /\ result' = [ result EXCEPT !.week = result.week + 1, !.done = 0 ]
    /\ UNCHANGED <<edit_analyses, learning_insights, probe, tx, emails, routed>>

NextScript == ScriptRecord \/ ScriptTick

SpecScript == InitScript /\ [][NextScript]_vars

-----------------------------------------------------------------------------
(* Concurrent connections.  Each INSERT INTO edit_analyses is its own      *)
(* transaction; the trigger's statements run inside it one after another.  *)
(* The upsert takes the row lock of its key (or waits for it) and computes *)
(* its SET clause from the row version it locked; the lock is held until   *)
(* the transaction commits.  Other connections see only committed rows.    *)

MaxInFlight == 3

ConcPrior == {0, 20}

ConcScores == {25, 85, 100}

\* the events recorded before the connections start: n edits of "tone"
PriorEvents(n) ==
    [ i \in 1..n |-> [ edit_type |-> "tone", success_score |-> 85,
                       user_id |-> "u1", created_at |-> 0 ] ]

InitConc ==
    /\ \E n \in ConcPrior :
        LET store == Replay(PriorEvents(n),
                            << EmptyBag, [ p \in AllPatterns |-> NoRow ] >>)
        IN  /\ edit_analyses = store[1]
            /\ learning_insights = store[2]
            /\ probe = [ kind |-> "prior", count |-> n ]
    /\ now = 0
    /\ result = NoResult
    /\ tx = [ c \in Procs |-> Idle ]
    /\ emails = {}
    /\ routed = EmptyBag

LockHeld(key) ==
    \E c \in Procs : /\ tx[c].pc \in {"upserted", "updated"}
                     /\ tx[c].new_row.edit_type = key

\* the INSERT puts the row in the table (uncommitted) and the trigger starts:
\* SELECT * INTO existing_insight
BeginInsert(c) ==
    /\ tx[c].pc = "idle"
    /\ BagCardinality(edit_analyses)
         + Cardinality({ d \in Procs : tx[d].pc /= "idle" })
         < probe.count + MaxInFlight
    /\ \E u \in MainUsers, sc \in ConcScores :
        tx' = [ tx EXCEPT ![c] =
                  [ pc |-> "inserted",
                    new_row |-> [ edit_type |-> "tone", success_score |-> sc,
                                  user_id |-> u, created_at |-> now ],
                    existing_insight |-> learning_insights["tone"],
                    row |-> NoRow ] ]
    /\ UNCHANGED <<now, edit_analyses, learning_insights, probe, result, emails, routed>>

\* the row version that learning_insights.* names in the DO UPDATE SET
\* clause: the one the statement locked, i.e. the latest committed version
conflict_row_stale(c) == tx[c].existing_insight

conflict_row(c) == learning_insights[tx[c].new_row.edit_type]

\* INSERT ... ON CONFLICT ... DO UPDATE, once no other transaction holds the key
Upsert(c) ==
    /\ tx[c].pc = "inserted"
    /\ ~LockHeld(tx[c].new_row.edit_type)
    /\ tx' = [ tx EXCEPT ![c].pc = "upserted",
                         ![c].row = upsert_row(conflict_row(c),
                                               tx[c].new_row.success_score,
                                               tx[c].new_row.created_at) ]
    /\ UNCHANGED <<now, edit_analyses, learning_insights, probe, result, emails, routed>>

\* SELECT * FROM calculate_pattern_stability(...) over the committed rows and
\* the transaction's own, then UPDATE learning_insights SET stability_...
UpdateStability(c) ==
    /\ tx[c].pc = "upserted"
    /\ tx' = [ tx EXCEPT ![c].pc = "updated",
                         ![c].row =
                             set_stability(
                                 tx[c].row,
                                 calculate_pattern_stability(
                                     edit_analyses (+) SetToBag({tx[c].new_row}),
                                     tx[c].new_row.created_at,
                                     tx[c].new_row.edit_type,
                                     tx[c].new_row.user_id)) ]
    /\ UNCHANGED <<now, edit_analyses, learning_insights, probe, result, emails, routed>>

\* the row version as the upsert alone leaves it
row_after_upsert_only(c) ==
    upsert_row(conflict_row(c), tx[c].new_row.success_score,
               tx[c].new_row.created_at)

\* the row version the transaction makes visible: both statements of the
\* trigger ran in it
committed_row(c) == tx[c].row

\* commit: the edit row and the new row version become visible, the lock goes
Commit(c) ==
    /\ tx[c].pc = "updated"
    /\ edit_analyses' = edit_analyses (+) SetToBag({tx[c].new_row})
    /\ learning_insights' =
         [ learning_insights EXCEPT ![tx[c].new_row.edit_type] = committed_row(c) ]
    /\ tx' = [ tx EXCEPT ![c] = Idle ]
    /\ UNCHANGED <<now, probe, result, emails, routed>>

NextConc ==
    \E c \in Procs :
        \/ BeginInsert(c)
        \/ Upsert(c)
        \/ UpdateStability(c)
        \/ Commit(c)

SpecConc == InitConc /\ [][NextConc]_vars

\* the same connections on a pattern with two full weeks behind it and one
\* edit in the current week, so that the next edit changes the weekly series
WeeklyPrior ==
    << [ edit_type |-> "tone", success_score |-> 85, user_id |-> "u1", created_at |-> 0 ],
       [ edit_type |-> "tone", success_score |-> 85, user_id |-> "u1", created_at |-> 0 ],
       [ edit_type |-> "tone", success_score |-> 25, user_id |-> "u1", created_at |-> 7 ],
       [ edit_type |-> "tone", success_score |-> 85, user_id |-> "u1", created_at |-> 7 ],
       [ edit_type |-> "tone", success_score |-> 85, user_id |-> "u1", created_at |-> 14 ] >>

InitAtomic ==
    /\ LET store == Replay(WeeklyPrior,
                           << EmptyBag, [ p \in AllPatterns |-> NoRow ] >>)
       IN  /\ edit_analyses = store[1]
           /\ learning_insights = store[2]
    /\ probe = [ kind |-> "prior", count |-> Len(WeeklyPrior) ]
    /\ now = 14
    /\ result = NoResult
    /\ tx = [ c \in Procs |-> Idle ]
    /\ emails = {}
    /\ routed = EmptyBag

SpecAtomic == InitAtomic /\ [][NextConc]_vars

-----------------------------------------------------------------------------
(* POST /learning/analyze-edit: the route, LearningService.analyzeEdit and *)
(* storeEditAnalysis.  A text is a sequence of one-character strings; a   *)
(* missing body field reads as the empty text.                             *)

Space == " "

MaxTextLen == 2

Letters == {"a", "b", Space}

\* a text long enough for one changed word to round to 0 percent
LongTextWords == 201

\* the words joined by single spaces
Sentence(words) ==
    [ i \in 1..(2 * Len(words) - 1) |->
        IF i % 2 = 1 THEN words[(i + 1) \div 2] ELSE Space ]

Texts ==
    UNION { [ 1..n -> Letters ] : n \in 0..MaxTextLen }
    \cup { Sentence(<<"a", "a", "a", "a", "a">>),
           Sentence(<<"a", "a", "a", "a", "b">>),
           Sentence(<<"a", "a", "b", "b", "b">>),
           Sentence(<<"a", "a", "a", "a", "a", "a", "a">>),
           Sentence(<<"a", "a", "b", "b", "b", "b", "b">>),
           Sentence([ i \in 1..10 |-> "a" ]),
           Sentence([ i \in 1..10 |-> IF i <= 7 THEN "b" ELSE "a" ]),
           Sentence([ i \in 1..14 |-> "a" ]),
           Sentence([ i \in 1..14 |-> IF i <= 3 THEN "b" ELSE "a" ]),
           Sentence(<<"a", "b">>),
           <<"a", Space, Space, "b">>,
           Sentence([ i \in 1..LongTextWords |-> "a" ]),
           Sentence([ i \in 1..LongTextWords |-> IF i = 1 THEN "b" ELSE "a" ]) }

\* edited.trim() === ''
trim_is_empty(text) == \A i \in 1..Len(text) : text[i] = Space

\* text.split(/\s+/): the pieces between runs of white space, empty pieces
\* at the ends included.  starts and ends are the first and last positions
\* of the runs, in order.
split(text) ==
    LET n == Len(text)
        positions == [ i \in 1..n |-> i ]
        starts == SelectSeq(positions,
                            LAMBDA i : /\ text[i] = Space
                                       /\ (i = 1 \/ text[i - 1] /= Space))
        ends == SelectSeq(positions,
                          LAMBDA i : /\ text[i] = Space
                                     /\ (i = n \/ text[i + 1] /= Space))
        k == Len(starts)
    IN  [ j \in 1..(k + 1) |->
            SubSeq(text,
                   IF j = 1 THEN 1 ELSE ends[j - 1] + 1,
                   IF j = k + 1 THEN n ELSE starts[j] - 1) ]

calculateEditPercentage(original, edited) ==
    IF original = edited THEN 0
    ELSE IF edited = <<>> \/ trim_is_empty(edited) THEN 100
    ELSE LET originalWords == split(original)
             editedWords == split(edited)
             minLength == Min(Len(originalWords), Len(editedWords))
             maxLength == Max(Len(originalWords), Len(editedWords))
             changes ==
                 Abs(Len(originalWords) - Len(editedWords))
                   + Cardinality({ i \in 1..minLength :
                                     originalWords[i] /= editedWords[i] })
         IN  Min(RoundDiv(100 * changes, maxLength), 100)

calculateSuccessScore_strict(editPercentage) ==
    IF editPercentage = 0 THEN 100
    ELSE IF editPercentage < 20 THEN 75
    ELSE IF editPercentage < 70 THEN 25
    ELSE 0

calculateSuccessScore(editPercentage) ==
    IF editPercentage = 0 THEN 100
    ELSE IF editPercentage <= 20 THEN 75
    ELSE IF editPercentage <= 70 THEN 25
    ELSE 0

\* what getAIEditAnalysis returns as editType: a label of the reply, 'mixed'
\* when the call fails, nothing when the reply holds no JSON with that key
Unparsed == "undefined"

AiEditTypes == AllPatterns \cup {Unparsed}

ResponseIds == {"", "r1"}

RecordPrior == {0, 2}

Requests ==
    [ responseId : ResponseIds, originalText : Texts, editedText : Texts,
      editType : AiEditTypes, storage : {"up", "down"} ]

InitRequest ==
    /\ \E n \in RecordPrior :
        LET store == Replay(PriorEvents(n),
                            << EmptyBag, [ p \in AllPatterns |-> NoRow ] >>)
        IN  /\ edit_analyses = store[1]
            /\ learning_insights = store[2]
    /\ now = 0
    /\ tx = [ c \in Procs |-> Idle ]
    /\ emails = {}
    /\ routed = EmptyBag
    /\ \E request \in Requests : probe = [ kind |-> "request" ] @@ request
    /\ result = NoResult

\* the route's check of the body
missing_fields(request) ==
    \/ request.responseId = ""
    \/ request.originalText = <<>>
    \/ request.editedText = <<>>

analysis_of(request) ==
    LET editPercentage ==
            calculateEditPercentage(request.originalText, request.editedText)
    IN  [ editType |-> request.editType,
          editPercentage |-> editPercentage,
          successScore |-> calculateSuccessScore(editPercentage) ]

\* one request, from the route's check to its response.  An INSERT with no
\* edit_type is refused or stored by the table (its definition is not part
\* of the sources); a row stored that way belongs to no tracked pattern.
AnalyzeEditRequest ==
    /\ probe.kind = "request"
    /\ result = NoResult
    /\ IF missing_fields(probe)
       THEN /\ result' = [ kind |-> "response", status |-> 400, stored |-> FALSE ]
            /\ UNCHANGED <<edit_analyses, learning_insights>>
       ELSE LET analysis == analysis_of(probe)
                new_row == [ edit_type |-> analysis.editType,
                             success_score |-> analysis.successScore,
                             user_id |-> "u1", created_at |-> now ]
                table == edit_analyses (+) SetToBag({new_row})
            IN  \E stored \in BOOLEAN :
                  /\ probe.storage = "down" => ~stored
                  /\ (probe.storage = "up" /\ probe.editType /= Unparsed) => stored
                  \* the catch in storeEditAnalysis logs the error and returns,
                  \* so the route answers res.json(...) either way
                  /\ result' = [ kind |-> "response",
                                 status |-> 200,
                                 stored |-> stored,
                                 analysis |-> analysis ]
                  /\ IF stored
                     THEN /\ edit_analyses' = table
                          /\ learning_insights' =
                               IF analysis.editType = Unparsed
                               THEN learning_insights
                               ELSE [ learning_insights EXCEPT
                                      ![analysis.editType] =
                                          update_learning_insights_with_stability(
                                              table,
                                              learning_insights[analysis.editType],
                                              new_row, now) ]
                     ELSE UNCHANGED <<edit_analyses, learning_insights>>
    /\ UNCHANGED <<now, probe, tx, emails, routed>>

SpecRequest == InitRequest /\ [][AnalyzeEditRequest]_vars

-----------------------------------------------------------------------------
(* The weekly query on its own: a log of edits with given dates, as the    *)
(* test scripts write them, read on a day that may fall inside a week.     *)

\* edits that may be in the log, oldest first
WeeklySlots ==
    << [ edit_type |-> "tone", success_score |-> 25, user_id |-> "u1", created_at |-> 1 ],
       [ edit_type |-> "tone", success_score |-> 85, user_id |-> "u1", created_at |-> 5 ],
       [ edit_type |-> "tone", success_score |-> 85, user_id |-> "u1", created_at |-> 5 ],
       [ edit_type |-> "tone", success_score |-> 25, user_id |-> "u1", created_at |-> 8 ],
       [ edit_type |-> "tone", success_score |-> 85, user_id |-> "u2", created_at |-> 8 ],
       [ edit_type |-> "tone", success_score |-> 85, user_id |-> "u1", created_at |-> 9 ],
       [ edit_type |-> "content", success_score |-> 25, user_id |-> "u1", created_at |-> 9 ],
       [ edit_type |-> "tone", success_score |-> 85, user_id |-> "u1", created_at |-> 57 ],
       [ edit_type |-> "tone", success_score |-> 25, user_id |-> "u1", created_at |-> 58 ] >>

\* the days of reading: a Thursday and the Monday after it
WeeklyNows == {59, 63}

RECURSIVE Pick(_, _, _)
\* the slots whose index is in S, from index i on
Pick(slots, S, i) ==
    IF i > Len(slots) THEN <<>>
    ELSE (IF i \in S THEN << slots[i] >> ELSE <<>>) \o Pick(slots, S, i + 1)

InitWeekly ==
    /\ \E S \in SUBSET (1..Len(WeeklySlots)) :
        LET store == Replay(Pick(WeeklySlots, S, 1),
                            << EmptyBag, [ p \in AllPatterns |-> NoRow ] >>)
        IN  /\ edit_analyses = store[1]
            /\ learning_insights = store[2]
    /\ now \in WeeklyNows
    /\ tx = [ c \in Procs |-> Idle ]
    /\ emails = {}
    /\ routed = EmptyBag
    /\ probe = [ kind |-> "weekly" ]
    /\ result = NoResult

\* SELECT * FROM calculate_pattern_stability('edit_type', p, u): the weekly
\* loop and the analysis of what it collected
EvalWeekly ==
    /\ probe.kind = "weekly"
    /\ result = NoResult
    /\ \E p \in KeyPatterns, u \in AllUsers \cup {NullUser} :
        result' = [ kind |-> "weekly",
                    pattern_value_param |-> p,
                    user_id_param |-> u,
                    weekly_rates |-> weekly_rates(edit_analyses, now, p, u),
                    stability |-> calculate_pattern_stability(edit_analyses, now, p, u) ]
    /\ UNCHANGED <<now, edit_analyses, learning_insights, probe, tx, emails, routed>>

SpecWeekly == InitWeekly /\ [][EvalWeekly]_vars

-----------------------------------------------------------------------------
(* The enhanced confidence of a row, computed when the row is read.  The   *)
(* running value is kept in ten-thousandths of a point.                    *)

\* Math.log10(n) * 15 for n = 1..25, in ten-thousandths
Log10Times15 ==
    << 0, 45154, 71568, 90309, 104846, 116723, 126765, 135463, 143136, 150000,
       156209, 161877, 167092, 171919, 176414, 180618, 184567, 188291, 191813,
       195154, 198333, 201363, 204259, 207032, 209691 >>

\* Math.round of x millionths: the nearest whole number, halves upwards
MathRound(x) == (x + 500000) \div 1000000

\* the calculation without Math.min(95, ...)
enhancedConfidence_no_cap(baseConfidence, sampleSize, timeSpanDays, successRate) ==
    IF sampleSize = 0 THEN 0
    ELSE LET sampleSizeBonus == Min(200000, Log10Times15[sampleSize])
             timeSpanBonus == Min(100000, timeSpanDays * 5000)
             rateBonus == IF successRate >= 8000 THEN 100000
                          ELSE IF successRate <= 4000 THEN 0 - 50000
                          ELSE 0
             factor == IF sampleSize < 10 THEN 90
                       ELSE IF sampleSize >= 20 THEN 105
                       ELSE 100
             sum == 10000 * baseConfidence + sampleSizeBonus + timeSpanBonus
                      + rateBonus
         IN  Max(0, MathRound(sum * factor))

\* enhancedConfidence of one test case: base + sample size bonus + time span
\* bonus + success rate factor, times the significance factor, rounded and
\* held to [0, 95].  successRate is in hundredths.  Math.log10(0) is
\* -Infinity, which the final Math.max turns into 0.
enhancedConfidence(baseConfidence, sampleSize, timeSpanDays, successRate) ==
    IF sampleSize = 0 THEN 0
    ELSE LET sampleSizeBonus == Min(200000, Log10Times15[sampleSize])
             timeSpanBonus == Min(100000, timeSpanDays * 5000)
             rateBonus == IF successRate >= 8000 THEN 100000
                          ELSE IF successRate <= 4000 THEN 0 - 50000
                          ELSE 0
             factor == IF sampleSize < 10 THEN 90
                       ELSE IF sampleSize >= 20 THEN 105
                       ELSE 100
             sum == 10000 * baseConfidence + sampleSizeBonus + timeSpanBonus
                      + rateBonus
         IN  Max(0, Min(95, MathRound(sum * factor)))

\* the four cases of testEnhancedConfidence
testCases ==
    { [ sampleSize |-> 5, baseConfidence |-> 65, timeSpanDays |-> 3, successRate |-> 8000 ],
      [ sampleSize |-> 10, baseConfidence |-> 70, timeSpanDays |-> 7, successRate |-> 8500 ],
      [ sampleSize |-> 20, baseConfidence |-> 75, timeSpanDays |-> 14, successRate |-> 9000 ],
      [ sampleSize |-> 3, baseConfidence |-> 60, timeSpanDays |-> 2, successRate |-> 7000 ] }

EnhancedProbes ==
    testCases \cup
    [ sampleSize : {0, 1, 9, 10, 19, 20, 25},
      baseConfidence : {0, 50, 66, 90, 100},
      timeSpanDays : {0, 1, 19, 20, 21, 400},
      successRate : {0, 4000, 4001, 7999, 8000, 10000} ]

\* the values of a stored row as the case
RowCase(row) ==
    [ sampleSize |-> row.sample_size, baseConfidence |-> row.confidence,
      timeSpanDays |-> row.time_span_days, successRate |-> row.success_rate ]

InitEnhanced ==
    /\ LET store == Replay(WeeklyPrior,
                           << EmptyBag, [ p \in AllPatterns |-> NoRow ] >>)
       IN  /\ edit_analyses = store[1]
           /\ learning_insights = store[2]
           /\ \E case \in EnhancedProbes \cup {RowCase(store[2]["tone"])} :
                probe = [ kind |-> "enhanced" ] @@ case
    /\ now = 14
    /\ result = NoResult
    /\ tx = [ c \in Procs |-> Idle ]
    /\ emails = {}
    /\ routed = EmptyBag

EvalEnhanced ==
    /\ probe.kind = "enhanced"
    /\ result = NoResult
    /\ result' = [ kind |-> "enhanced",
                   enhancedConfidence |->
                       enhancedConfidence(probe.baseConfidence, probe.sampleSize,
                                          probe.timeSpanDays, probe.successRate) ]
    /\ UNCHANGED <<now, edit_analyses, learning_insights, probe, tx, emails, routed>>

SpecEnhanced == InitEnhanced /\ [][EvalEnhanced]_vars

-----------------------------------------------------------------------------
(* Several users editing one pattern that the first user's edits of three  *)
(* weeks have already made stable.                                         *)

MaxUserEvents == 9

MaxUserWeek == 3

\* two edits of user u1 in each of three weeks
UserPrior ==
    [ i \in 1..6 |->
        [ edit_type |-> "tone", success_score |-> 85, user_id |-> "u1",
          created_at |-> 7 * ((i - 1) \div 2) ] ]

InitUsers ==
    /\ LET store == Replay(UserPrior,
                           << EmptyBag, [ p \in AllPatterns |-> NoRow ] >>)
       IN  /\ edit_analyses = store[1]
           /\ learning_insights = store[2]
    /\ now = 14
    /\ probe = [ kind |-> "users" ]
    /\ result = NoResult
    /\ tx = [ c \in Procs |-> Idle ]
    /\ emails = {}
    /\ routed = EmptyBag

NextUsers ==
    \/ Tick(MaxUserWeek)
    \/ RecordEdit(MainPatterns, AllUsers, MaxUserEvents)

SpecUsers == InitUsers /\ [][NextUsers]_vars

-----------------------------------------------------------------------------
(* Edits stored with a date of their own, as createSampleLearningData      *)
(* writes them, while the clock moves a day at a time.                     *)

MaxDatedEvents == 9

MaxDay == 3

\* how many days before the insert an edit may be dated
DatedBack == {0, 5}

TickDay ==
    /\ now < MaxDay
    /\ now' = now + 1
    /\ UNCHANGED <<edit_analyses, learning_insights, probe, result, tx, emails, routed>>

\* INSERT INTO edit_analyses (..., created_at) VALUES (..., createdAt): the
\* trigger runs at the time of the insert
RecordDated ==
    /\ BagCardinality(edit_analyses) < MaxDatedEvents
    /\ \E back \in DatedBack :
        LET new_row == [ edit_type |-> "tone", success_score |-> 85,
                         user_id |-> "u1", created_at |-> now - back ]
            table == edit_analyses (+) SetToBag({new_row})
        IN  /\ edit_analyses' = table
            /\ learning_insights' =
                 [ learning_insights EXCEPT
                   !["tone"] = update_learning_insights_with_stability(
                                   table, learning_insights["tone"], new_row, now) ]
    /\ UNCHANGED <<now, probe, result, tx, emails, routed>>

InitDated ==
    /\ EmptyStore
    /\ probe = [ kind |-> "dated" ]
    /\ result = NoResult

NextDated == TickDay \/ RecordDated

SpecDated == InitDated /\ [][NextDated]_vars

-----------------------------------------------------------------------------
(* Webhook processing.  Every Gmail notification for a user is handled by  *)
(* its own asynchronous call chain; the chains interleave at each await.   *)
(* A worker is one chain handling one email for one user.                  *)

\* one email, notified to either user any number of times
Mails == {"m1"}

EmailRows(table, email, userId) ==
    { r \in table : r.gmail_id = email /\ r.user_id = userId }

\* emailModel.getEmailByGmailId(email.id, userId): the user's row of the
\* email, if there is one
getEmailByGmailId(table, email, userId) == EmailRows(table, email, userId)

\* emailModel.saveEmailAndMarkAsWebhookProcessedForUser(parsedEmail, userId):
\* one atomic step that stores the user's row of the email with
\* webhook_processed = true and reports success, unless the row is already
\* marked, when it changes nothing and reports failure
saveEmailAndMarkAsWebhookProcessedForUser(table, email, userId) ==
    IF \E r \in EmailRows(table, email, userId) : r.webhook_processed
    THEN [ success |-> FALSE, table |-> table ]
    ELSE [ success |-> TRUE,
           table |-> (table \ EmailRows(table, email, userId)) \cup
                     { [ gmail_id |-> email, user_id |-> userId,
                         webhook_processed |-> TRUE ] } ]

\* if (!existingEmail || !existingEmail.webhook_processed)
toProcess(existingEmail) ==
    \A r \in existingEmail : ~ r.webhook_processed

alreadyProcessed_ignored(saved) == FALSE

\* if (!result.success) return { status: 'duplicate', ... }
alreadyProcessed(saved) == ~ saved.success

Returned(w, status) ==
    [ pc |-> "returned", gmail_id |-> w.gmail_id, user_id |-> w.user_id,
      status |-> status ]

Call(email, userId, via) ==
    SetToBag({ [ gmail_id |-> email, user_id |-> userId, via |-> via ] })

\* processGmailNotificationForUser, step 1: the email of the notification is
\* queued for processing unless the user's row says it was processed
Notify(c) ==
    /\ tx[c].pc \in {"idle", "returned"}
    /\ \E email \in Mails, userId \in AllUsers :
        tx' = [ tx EXCEPT ![c] =
                  IF toProcess(getEmailByGmailId(emails, email, userId))
                  THEN [ pc |-> "queued", gmail_id |-> email, user_id |-> userId ]
                  ELSE Idle ]
    /\ UNCHANGED <<now, edit_analyses, learning_insights, probe, result, emails, routed>>

\* processEmailSafe, step 3: shouldGenerateResponseForEmail decides from the
\* email's sender, subject and classification
Filter(c) ==
    /\ tx[c].pc = "queued"
    /\ \E generate \in BOOLEAN :
        tx' = [ tx EXCEPT ![c].pc = IF generate THEN "qualified" ELSE "filtered" ]
    /\ UNCHANGED <<now, edit_analyses, learning_insights, probe, result, emails, routed>>

\* processEmailSafe, the filtered-out branch: the email is saved and marked,
\* whatever the step reports, and the worker returns 'skipped'
SaveFiltered(c) ==
    /\ tx[c].pc = "filtered"
    /\ LET saved == saveEmailAndMarkAsWebhookProcessedForUser(
                        emails, tx[c].gmail_id, tx[c].user_id)
       IN  emails' = saved.table
    /\ tx' = [ tx EXCEPT ![c] = Returned(tx[c], "skipped") ]
    /\ UNCHANGED <<now, edit_analyses, learning_insights, probe, result, routed>>

\* processEmailSafe, step 4: the email is saved and marked; a worker the step
\* turns away returns 'duplicate', the other goes on to the router
SaveQualified(c) ==
    /\ tx[c].pc = "qualified"
    /\ LET saved == saveEmailAndMarkAsWebhookProcessedForUser(
                        emails, tx[c].gmail_id, tx[c].user_id)
       IN  /\ emails' = saved.table
           /\ tx' = [ tx EXCEPT ![c] =
                        IF alreadyProcessed(saved)
                        THEN Returned(tx[c], "duplicate")
                        ELSE [ tx[c] EXCEPT !.pc = "routing" ] ]
    /\ UNCHANGED <<now, edit_analyses, learning_insights, probe, result, routed>>

\* processEmailSafe: intelligentEmailRouter.routeEmail(parsedEmail, userId,
\* emailId) is called; the worker returns 'success', or 'error' when the
\* router throws
Route(c) ==
    /\ tx[c].pc = "routing"
    /\ routed' = routed (+) Call(tx[c].gmail_id, tx[c].user_id, "webhook")
    /\ \E status \in {"success", "error"} :
        tx' = [ tx EXCEPT ![c] = Returned(tx[c], status) ]
    /\ UNCHANGED <<now, edit_analyses, learning_insights, probe, result, emails>>

\* processEmailSafe, catch (emailError): parsing or the save step throws
\* before anything was written
Throw(c) ==
    /\ tx[c].pc \in {"queued", "filtered", "qualified"}
    /\ tx' = [ tx EXCEPT ![c] = Returned(tx[c], "error") ]
    /\ UNCHANGED <<now, edit_analyses, learning_insights, probe, result, emails, routed>>

\* GET /emails/fetch, one email of the loop: an email the user has no row of
\* is saved (webhook_processed keeps its default, false) and routed
ManualFetch ==
    /\ \E email \in Mails, userId \in AllUsers :
        /\ EmailRows(emails, email, userId) = {}
        /\ emails' = emails \cup { [ gmail_id |-> email, user_id |-> userId,
                                       webhook_processed |-> FALSE ] }
        /\ routed' = routed (+) Call(email, userId, "manual")
    /\ UNCHANGED <<now, edit_analyses, learning_insights, probe, result, tx>>

InitWebhook ==
    /\ EmptyStore
    /\ probe = [ kind |-> "webhook" ]
    /\ result = NoResult

NextWebhook ==
    \/ \E c \in Procs : Notify(c)
    \/ \E c \in Procs : Filter(c)
    \/ \E c \in Procs : SaveFiltered(c)
    \/ \E c \in Procs : SaveQualified(c)
    \/ \E c \in Procs : Route(c)
    \/ \E c \in Procs : Throw(c)
    \/ ManualFetch

SpecWebhook == InitWebhook /\ [][NextWebhook]_vars

-----------------------------------------------------------------------------
(* Properties *)

StoredRows == { learning_insights[p] : p \in AllPatterns } \ {NoRow}

\* C1: thresholdMet(sampleSize, confidence, timeSpanDays) is true if and only
\* if sampleSize >= 5 and confidence >= 65 and timeSpanDays >= 3, for every
\* input; (5,65,3) is true and (4,65,3), (5,64,3), (5,65,2) are each false.
C1_ThresholdIff ==
    result.kind = "threshold" =>
        LET at(s, c, t) == /\ probe.sample_size = s
                           /\ probe.confidence = c
                           /\ probe.time_span_days = t
        IN  /\ result.value <=> ( /\ probe.sample_size >= 5
                                  /\ probe.confidence >= 65
                                  /\ probe.time_span_days >= 3 )
            /\ at(5, 65, 3) => result.value
            /\ at(4, 65, 3) \/ at(5, 64, 3) \/ at(5, 65, 2) => ~result.value

C1_Witness ==
    /\ result.kind = "threshold"
    /\ probe.sample_size = 5 /\ probe.confidence = 65 /\ probe.time_span_days = 3
    /\ result.value

\* the ordered rule list of the validation statuses, as the specification
\* of the aggregator words it
ListedRule(i, r) ==
    CASE i = 1 -> r.threshold_met /\ r.stability_validated
                  /\ ~r.pattern_drift_detected
      [] i = 2 -> r.threshold_met /\ ~r.stability_validated
      [] i = 3 -> r.threshold_met /\ r.pattern_drift_detected
      [] i = 4 -> r.stability_validated /\ ~r.threshold_met
      [] i = 5 -> r.sample_size >= 5 /\ r.confidence < 65
      [] i = 6 -> r.sample_size >= 5 /\ r.confidence >= 65
                  /\ r.time_span_days < 3
      [] i = 7 -> r.sample_size < 5
      [] i = 8 -> TRUE

ListedNames ==
    << "FULLY_VALIDATED", "THRESHOLD_MET_BUT_UNSTABLE", "PATTERN_DRIFT_DETECTED",
       "STABLE_BUT_INSUFFICIENT_DATA", "INSUFFICIENT_CONFIDENCE",
       "INSUFFICIENT_TIME_SPAN", "INSUFFICIENT_SAMPLES", "PENDING_VALIDATION" >>

ListedStatus(r) ==
    ListedNames[CHOOSE i \in 1..8 :
                    ListedRule(i, r) /\ \A j \in 1..(i - 1) : ~ListedRule(j, r)]

\* C2: for every combination of the columns the status computed by the
\* view's CASE equals the first matching rule of the listed order, and
\* FULLY_VALIDATED is returned exactly when thresholdMet and
\* stabilityValidated and not patternDriftDetected.
C2_StatusFirstMatch ==
    result.kind = "status" =>
        /\ result.value = ListedStatus(probe)
        /\ result.value = "FULLY_VALIDATED" <=>
               ( /\ probe.threshold_met
                 /\ probe.stability_validated
                 /\ ~probe.pattern_drift_detected )

C2_Witness ==
    /\ result.kind = "status"
    /\ probe.threshold_met /\ ~probe.stability_validated
    /\ probe.pattern_drift_detected
    /\ result.value = "THRESHOLD_MET_BUT_UNSTABLE"

\* C3 as stated: every stored row that is threshold-met and drift-detected
\* has status PATTERN_DRIFT_DETECTED.
C3_DriftAlwaysReported ==
    \A r \in StoredRows :
        r.threshold_met /\ r.pattern_drift_detected =>
            validation_status(r) = "PATTERN_DRIFT_DETECTED"

\* C3: a stored row that is threshold-met and drift-detected is never
\* FULLY_VALIDATED; it is PATTERN_DRIFT_DETECTED when it is also
\* stability-validated and THRESHOLD_MET_BUT_UNSTABLE when it is not.
C3_DriftNeverValidated ==
    \A r \in StoredRows :
        r.threshold_met /\ r.pattern_drift_detected =>
            /\ validation_status(r) /= "FULLY_VALIDATED"
            /\ validation_status(r) =
                   IF r.stability_validated THEN "PATTERN_DRIFT_DETECTED"
                   ELSE "THRESHOLD_MET_BUT_UNSTABLE"

C3_Witness ==
    \E r \in StoredRows :
        /\ r.threshold_met /\ r.pattern_drift_detected /\ r.stability_validated
        /\ validation_status(r) = "PATTERN_DRIFT_DETECTED"

\* the three-key order of the aggregator: a comes no later than b
OrderedBefore(a, b) ==
    \/ a.stability_score > b.stability_score
    \/ /\ a.stability_score = b.stability_score
       /\ \/ a.confidence > b.confidence
          \/ /\ a.confidence = b.confidence
             /\ a.sample_size >= b.sample_size

\* C4 as stated: the query returns exactly the FULLY_VALIDATED rows, ordered
\* by stabilityScore descending, then confidence descending, then sampleSize
\* descending (the empty sequence when none qualifies).
C4_ExactAndOrdered ==
    result.kind = "query" =>
        /\ { result.rows[i] : i \in 1..Len(result.rows) } =
               { p \in AllPatterns :
                   /\ learning_insights[p] /= NoRow
                   /\ learning_insights[p].threshold_met
                   /\ learning_insights[p].stability_validated
                   /\ ~learning_insights[p].pattern_drift_detected }
        /\ \A i, j \in 1..Len(result.rows) :
               i < j => OrderedBefore(learning_insights[result.rows[i]],
                                      learning_insights[result.rows[j]])

\* C5: for every pattern, sampleSize equals the number of stored edit events
\* with that pattern label (no row while there is none).
EventCount(p) ==
    BagSetSum(edit_analyses, { e \in BagToSet(edit_analyses) : e.edit_type = p },
              FALSE)

C5_SampleSizeCounts ==
    \A p \in AllPatterns :
        IF learning_insights[p] = NoRow
        THEN EventCount(p) = 0
        ELSE learning_insights[p].sample_size = EventCount(p)

C5_Witness ==
    /\ EventCount("tone") = 2
    /\ EventCount("content") = 2
    /\ learning_insights["tone"].sample_size = 2
    /\ \E e \in BagToSet(edit_analyses) : e.user_id = "u2"

\* C6: connections recording edits of one pattern concurrently lose no
\* update.  With k edits committed on top of the prior row, the committed
\* row has frequency and sampleSize grown by k and confidence grown by
\* min(2k, distance to 90) (a first edit creates the row at 1, 1, 50), its
\* successRate is the running average of some serial order of the k edits,
\* and a row version held under the lock counts its own edit on top of the
\* committed ones.
PriorStore ==
    Replay(PriorEvents(probe.count), << EmptyBag, [ p \in AllPatterns |-> NoRow ] >>)

NewEvents == edit_analyses (-) PriorStore[1]

RECURSIVE SerialUpserts(_, _)
SerialUpserts(row, scores) ==
    IF scores = <<>> THEN row
    ELSE SerialUpserts(upsert_row(row, Head(scores), 0), Tail(scores))

SerialOrders ==
    LET k == BagCardinality(NewEvents)
        S == BagToSet(NewEvents)
    IN  { [ i \in 1..k |-> f[i].success_score ] :
            f \in { g \in [ 1..k -> S ] :
                      \A e \in S :
                        Cardinality({ i \in 1..k : g[i] = e })
                            = CopiesIn(e, NewEvents) } }

GrownBy(row, prior, k) ==
    IF prior = NoRow
    THEN /\ row.frequency = k
         /\ row.sample_size = k
         /\ row.confidence
              = InitialConfidence
                  + Min(2 * (k - 1), MaxConfidence - InitialConfidence)
    ELSE /\ row.frequency = prior.frequency + k
         /\ row.sample_size = prior.sample_size + k
         /\ row.confidence
              = prior.confidence + Min(2 * k, MaxConfidence - prior.confidence)

C6_NoLostUpdate ==
    LET k == BagCardinality(NewEvents)
        prior == PriorStore[2]["tone"]
        row == learning_insights["tone"]
    IN  /\ IF k = 0 THEN row = prior
           ELSE /\ row /= NoRow
                /\ GrownBy(row, prior, k)
                /\ \E order \in SerialOrders :
                     row.success_rate
                        = SerialUpserts(prior, order).success_rate
        /\ \A c \in Procs :
             tx[c].pc \in {"upserted", "updated"}
                => GrownBy(tx[c].row, prior, k + 1)

\* a connection that read the row before another one committed holds, after
\* that commit, a version that counts both edits and stops at confidence 90
C6_Witness ==
    \E c \in Procs :
        /\ probe = [ kind |-> "prior", count |-> 20 ]
        /\ tx[c].pc = "updated"
        /\ tx[c].existing_insight.frequency = 20
        /\ learning_insights["tone"].frequency = 21
        /\ learning_insights["tone"].confidence = 90
        /\ tx[c].row.frequency = 22
        /\ tx[c].row.confidence = 90
        /\ tx[c].row.success_rate /= learning_insights["tone"].success_rate

\* C7: a series of fewer than three weekly rates, the empty one included,
\* gets the neutral default: stability 0.5, variance 0, not stable, no drift.
C7_NeutralDefault ==
    (result.kind = "stability" /\ Len(probe.rates) < MinWeeks)
        => /\ result.stability_score = 500
           /\ result.pattern_variance = 0
           /\ result.is_stable = FALSE
           /\ result.drift_detected = FALSE

C7_Witness ==
    /\ probe.kind = "series"
    /\ probe.rates = <<>>
    /\ result.kind = "stability"
    /\ result.stability_score = 500
    /\ ~result.is_stable

\* C8 as stated: drift is reported iff there are at least four weekly rates
\* and the most recent one differs from the mean of all the earlier ones by
\* more than 20 points.
C8_DriftLastWeekAgainstPrior ==
    result.kind = "stability" =>
        LET rates == probe.rates
            n == Len(rates)
        IN  result.drift_detected
              <=> /\ n >= 4
                  /\ Abs((n - 1) * rates[n] - SeqSum(SubSeq(rates, 1, n - 1)))
                       > 2000 * (n - 1)

\* C8 amended: drift is reported iff there are at least four weekly rates and
\* the mean of the two most recent ones differs from the mean of all the
\* earlier ones by more than 20 points.
C8_DriftRecentTwoAgainstEarlier ==
    result.kind = "stability" =>
        LET rates == probe.rates
            n == Len(rates)
        IN  result.drift_detected
              <=> /\ n >= 4
                  /\ Abs((n - 2) * (rates[n - 1] + rates[n])
                           - 2 * SeqSum(SubSeq(rates, 1, n - 2)))
                       > 4000 * (n - 2)

C8_Witness ==
    /\ probe.kind = "series"
    /\ probe.rates = <<5000, 5000, 8000, 7000>>
    /\ result.kind = "stability"
    /\ result.drift_detected

\* exact comparison of products too large for one machine integer:
\* little-endian digit sequences in base 10^4
Base == 100 * 100

Limbs(x) == << x % Base, (x \div Base) % Base, x \div (Base * Base) >>

LimbProduct(a, b) ==
    [ k \in 1..(Len(a) + Len(b) - 1) |->
        SeqSum([ i \in 1..Len(a) |->
                   IF k + 1 - i \in 1..Len(b) THEN a[i] * b[k + 1 - i] ELSE 0 ]) ]

RECURSIVE Carry(_, _, _)
Carry(digits, carry, width) ==
    IF width = 0 THEN <<>>
    ELSE LET d == (IF digits = <<>> THEN 0 ELSE Head(digits)) + carry
         IN  << d % Base >>
               \o Carry(IF digits = <<>> THEN <<>> ELSE Tail(digits),
                        d \div Base, width - 1)

Times(a, b) == Carry(LimbProduct(a, b), 0, Len(a) + Len(b))

Digit(a, i) == IF i <= Len(a) THEN a[i] ELSE 0

RECURSIVE LimbsLeq(_, _, _)
\* a <= b for digit sequences, from digit i downwards
LimbsLeq(a, b, i) ==
    IF i = 0 THEN TRUE
    ELSE IF Digit(a, i) /= Digit(b, i) THEN Digit(a, i) < Digit(b, i)
    ELSE LimbsLeq(a, b, i - 1)

Square(M) == Times(Limbs(M), Limbs(M))

\* sqrt(V1)/M1 <= sqrt(V2)/M2 for positive means: V1 * M2^2 <= V2 * M1^2
CvLeq(V1, M1, V2, M2) ==
    LimbsLeq(Times(Limbs(V1), Square(M2)), Times(Limbs(V2), Square(M1)), 9)

\* sqrt(V) <= (num / 10^4) * M with V, M in thousandths:
\* 10^11 * V <= num^2 * M^2
WithinRatio(V, M, num) ==
    LimbsLeq(Times(<<0, 0, 1000>>, Limbs(V)),
             Times(Limbs(num * num), Square(M)), 9)

ReferencePair == probe.rates = SeriesA /\ probe.other = SeriesB

\* C9 as stated: isStable iff the score is at least 0.7, that is iff the
\* mean is positive and sqrt(variance) <= 0.3 * mean; the score does not
\* grow with the coefficient of variation; example A scores above example B,
\* A is stable and B is not.
C9_StableIffCvWithin30Percent ==
    (result.kind = "stability" /\ Len(probe.rates) >= MinWeeks) =>
        LET M == mean_rate(probe.rates)
            V == variance_calc(probe.rates)
            other == analyze_rates(probe.other)
            M2 == mean_rate(probe.other)
            V2 == variance_calc(probe.other)
        IN  /\ result.is_stable <=> result.stability_score >= StableThreshold
            /\ result.is_stable <=> (M > 0 /\ WithinRatio(V, M, 3000))
            /\ (M > 0 /\ M2 > 0 /\ CvLeq(V, M, V2, M2))
                 => result.stability_score >= other.stability_score
            /\ ReferencePair
                 => /\ result.stability_score > other.stability_score
                    /\ result.is_stable
                    /\ ~other.is_stable

\* C9 amended: isStable iff the score is at least 0.700, where the score is
\* 1 - sqrt(variance)/mean rounded to three decimals, that is iff the mean
\* is positive and sqrt(variance) <= 0.3005 * mean (mean and variance as the
\* function holds them, to three decimals); the score does not grow with
\* the coefficient of variation; A scores above B, A is stable, B is not.
C9_StableIffRoundedScore ==
    (result.kind = "stability" /\ Len(probe.rates) >= MinWeeks) =>
        LET M == mean_rate(probe.rates)
            V == variance_calc(probe.rates)
            other == analyze_rates(probe.other)
            M2 == mean_rate(probe.other)
            V2 == variance_calc(probe.other)
        IN  /\ result.is_stable <=> result.stability_score >= StableThreshold
            /\ result.is_stable <=> (M > 0 /\ WithinRatio(V, M, 3005))
            /\ (M > 0 /\ M2 > 0 /\ CvLeq(V, M, V2, M2))
                 => result.stability_score >= other.stability_score
            /\ ReferencePair
                 => /\ result.stability_score > other.stability_score
                    /\ result.is_stable
                    /\ ~other.is_stable

\* the series 15, 16, 28: sqrt(variance)/mean is 0.30034, the score 0.700
C9_Witness ==
    /\ probe.kind = "series"
    /\ probe.rates = <<1500, 1600, 2800>>
    /\ result.kind = "stability"
    /\ result.stability_score = 700
    /\ result.is_stable
    /\ ~WithinRatio(variance_calc(probe.rates), mean_rate(probe.rates), 3000)

\* C10 as stated: a pattern with five or more recorded edits, spread over at
\* least three distinct weeks, every score within 80..90, has validation
\* status FULLY_VALIDATED.
EventsOf(p) == { e \in BagToSet(edit_analyses) : e.edit_type = p }

SteadyScenario(p) ==
    /\ EventCount(p) >= 5
    /\ Cardinality({ week_start(e.created_at) : e \in EventsOf(p) }) >= 3
    /\ \A e \in EventsOf(p) : e.success_score \in 80..90

C10_SteadyPatternFullyValidated ==
    \A p \in AllPatterns :
        SteadyScenario(p)
            => /\ learning_insights[p] /= NoRow
               /\ validation_status(learning_insights[p]) = "FULLY_VALIDATED"

\* the weekly scores of a script whose weeks each hold one score
ScriptSeries == [ w \in 1..Len(probe.weeks) |-> probe.weeks[w][1] ]

DecliningPlayed ==
    /\ probe.kind = "script"
    /\ probe.name = "declining"
    /\ ScriptFinished

Alternating == probe.kind = "script" /\ probe.name \in {"alternating_weeks", "alternating_events"}

Rejections ==
    { "THRESHOLD_MET_BUT_UNSTABLE", "PATTERN_DRIFT_DETECTED", "INSUFFICIENT_CONFIDENCE",
      "INSUFFICIENT_TIME_SPAN", "INSUFFICIENT_SAMPLES", "STABLE_BUT_INSUFFICIENT_DATA",
      "PENDING_VALIDATION" }

C12_AlternatingNeverValidated ==
    (Alternating /\ learning_insights["tone"] /= NoRow)
        => /\ validation_status(learning_insights["tone"]) /= "FULLY_VALIDATED"
           /\ (EventCount("tone") >= 5 /\ result.week >= 3)
                => validation_status(learning_insights["tone"]) \in Rejections

\* C12 amended: when the weekly averages alternate between about 80 and
\* about 30 (each week's edits scoring alike), the status is never
\* FULLY_VALIDATED at any point, it is a rejection once five or more edits
\* over three or more weeks are in, and it is THRESHOLD_MET_BUT_UNSTABLE as
\* soon as the threshold is met.
C12_AlternatingWeeksRejected ==
    (probe.kind = "script" /\ probe.name = "alternating_weeks"
       /\ learning_insights["tone"] /= NoRow)
        => LET row == learning_insights["tone"]
           IN  /\ validation_status(row) /= "FULLY_VALIDATED"
               /\ (EventCount("tone") >= 5 /\ result.week >= 3)
                    => validation_status(row) \in Rejections
               /\ row.threshold_met
                    => validation_status(row) = "THRESHOLD_MET_BUT_UNSTABLE"

C12_Witness ==
    /\ probe.kind = "script"
    /\ probe.name = "alternating_weeks"
    /\ ScriptFinished
    /\ Len(probe.weeks) = 5
    /\ learning_insights["tone"].threshold_met
    /\ learning_insights["tone"].weekly_success_rates = <<8000, 3000, 8000, 3000, 8000>>
    /\ validation_status(learning_insights["tone"]) = "THRESHOLD_MET_BUT_UNSTABLE"

Handled == probe.kind = "request" /\ result.kind = "response"

Scored == Handled /\ result.status = 200

BandScore(editPercentage) ==
    CASE editPercentage = 0 -> 100
      [] editPercentage \in 1..20 -> 75
      [] editPercentage \in 21..70 -> 25
      [] editPercentage \in 71..100 -> 0

C14_StorageFailurePropagates ==
    (Handled /\ ~missing_fields(probe) /\ ~result.stored)
        => result.status /= 200

\* C15 as stated: a request with a missing field or with no pattern label is
\* refused with a validation failure and nothing is stored.
Malformed == missing_fields(probe) \/ probe.editType = Unparsed

C15_MalformedRejected ==
    (Handled /\ Malformed)
        => /\ result.status = 400
           /\ ~result.stored

\* C16: for every combination of the columns the status is one of the
\* eight names, rows with too little data included, and reading the same
\* row again gives the same status.
ReadTwice == result.kind = "status" /\ "again" \in DOMAIN result

C17_StoredThresholdConsistent ==
    \A p \in AllPatterns :
        learning_insights[p] /= NoRow
            => LET row == learning_insights[p]
               IN  row.threshold_met
                     <=> /\ row.sample_size >= 5
                         /\ row.confidence >= 65
                         /\ row.time_span_days >= 3

\* the ninth edit, two weeks after the first, turns the flag on
C17_Witness ==
    /\ probe = NoProbe
    /\ learning_insights["tone"] /= NoRow
    /\ learning_insights["tone"].threshold_met
    /\ learning_insights["tone"].sample_size = 9
    /\ learning_insights["tone"].confidence = 66
    /\ learning_insights["tone"].time_span_days >= 3

\* C18: what other sessions can read is always whole: the stored events and
\* the row of their pattern agree in every derived column (frequency,
\* sampleSize, confidence, thresholdMet and the stability columns computed
\* from exactly the stored events), and the row changes only together with
\* the event log.
StabilityColumns(row) ==
    [ stability_score |-> row.stability_score,
      pattern_variance |-> row.pattern_variance,
      weekly_rates |-> row.weekly_success_rates,
      is_stable |-> row.stability_validated,
      drift_detected |-> row.pattern_drift_detected ]

C18_RecomputationAtomic ==
    LET row == learning_insights["tone"]
        n == EventCount("tone")
    IN  /\ row /= NoRow
        /\ row.frequency = n
        /\ row.sample_size = n
        /\ row.confidence = Min(MaxConfidence, InitialConfidence + ConfidenceStep * (n - 1))
        /\ row.threshold_met
             <=> (row.sample_size >= 5 /\ row.confidence >= 65 /\ row.time_span_days >= 3)
        /\ StabilityColumns(row)
             = calculate_pattern_stability(edit_analyses, now, "tone", "u1")

\* one edit is committed with its week now counted, while another edit is
\* still inside its transaction
C18_Witness ==
    /\ probe = [ kind |-> "prior", count |-> Len(WeeklyPrior) ]
    /\ EventCount("tone") = Len(WeeklyPrior) + 1
    /\ Len(learning_insights["tone"].weekly_success_rates) = 3
    /\ learning_insights["tone"].stability_score /= DefaultScore
    /\ \E c \in Procs : /\ tx[c].pc = "updated"
                        /\ tx[c].row /= learning_insights["tone"]

\* C19: a row is created with confidence 50, every further edit of its
\* pattern sets confidence to min(90, confidence + 2), so confidence never
\* decreases and always lies within [50, 90].
C19_ConfidenceGrowsToCap ==
    /\ [](\A p \in AllPatterns :
            learning_insights[p] /= NoRow
              => /\ learning_insights[p].confidence >= 50
                 /\ learning_insights[p].confidence <= 90)
    /\ [][\A p \in AllPatterns :
            learning_insights'[p] /= learning_insights[p]
              => IF learning_insights[p] = NoRow
                 THEN learning_insights'[p].confidence = 50
                 ELSE /\ learning_insights'[p].confidence
                           = Min(90, learning_insights[p].confidence + 2)
                      /\ learning_insights'[p].confidence
                           >= learning_insights[p].confidence]_vars

\* the twenty-second edit finds confidence at 90 and leaves it there
C19_Witness ==
    /\ probe = [ kind |-> "prior", count |-> 20 ]
    /\ EventCount("tone") = 22
    /\ learning_insights["tone"].frequency = 22
    /\ learning_insights["tone"].confidence = 90

\* the sum of the stored scores of a pattern
ScoreSum(p) == BagSetSum(edit_analyses, EventsOf(p), TRUE)

\* the step of C20: the edit just stored for p moved the row from the old
\* frequency and rate (hundredths of a point) to frequency + 1 and the
\* weighted average, taken to the scale of the column
AveragedIn(p) ==
    \E e \in BagToSet(edit_analyses' (-) edit_analyses) :
        /\ e.edit_type = p
        /\ IF learning_insights[p] = NoRow
           THEN /\ learning_insights'[p].frequency = 1
                /\ learning_insights'[p].success_rate = 100 * e.success_score
           ELSE /\ learning_insights'[p].frequency = learning_insights[p].frequency + 1
                /\ learning_insights'[p].success_rate
                     = RoundDiv(learning_insights[p].success_rate
                                    * learning_insights[p].frequency
                                  + 100 * e.success_score,
                                learning_insights[p].frequency + 1)

\* C20 as stated: every edit applies the running average and adds one to
\* frequency, and the stored successRate is exactly the arithmetic mean of
\* all scores of the pattern, within [0, 100].
C20_RateIsExactMean ==
    /\ [](\A p \in AllPatterns :
            learning_insights[p] /= NoRow
              => /\ learning_insights[p].success_rate * EventCount(p)
                      = 100 * ScoreSum(p)
                 /\ learning_insights[p].success_rate >= 0
                 /\ learning_insights[p].success_rate <= 100 * 100)
    /\ [][\A p \in AllPatterns :
            learning_insights'[p] /= learning_insights[p] => AveragedIn(p)]_vars

\* C20 with the rounding of each step counted: every edit applies the running
\* average, rounded to the hundredths the column keeps, and adds one to
\* frequency; the stored successRate stays within [0, 100] and differs from
\* the arithmetic mean of the n scores of the pattern by at most n/2
\* hundredths of a point.
C20_RateIsMeanUpToRounding ==
    /\ [](\A p \in AllPatterns :
            learning_insights[p] /= NoRow
              => LET n == EventCount(p)
                 IN  /\ learning_insights[p].frequency = n
                     /\ 2 * Abs(learning_insights[p].success_rate * n
                                  - 100 * ScoreSum(p)) <= n * n
                     /\ learning_insights[p].success_rate >= 0
                     /\ learning_insights[p].success_rate <= 100 * 100)
    /\ [][\A p \in AllPatterns :
            learning_insights'[p] /= learning_insights[p] => AveragedIn(p)]_vars

\* seven edits whose mean has no exact value in hundredths
C20_Witness ==
    /\ probe = NoProbe
    /\ learning_insights["tone"] /= NoRow
    /\ EventCount("tone") = 7
    /\ learning_insights["tone"].frequency = 7
    /\ learning_insights["tone"].success_rate * 7 /= 100 * ScoreSum("tone")

\* C21: for every weekly series the stability score lies within [0, 1] and
\* the variance is not negative; with three or more weeks the score is 0 when
\* the mean is 0, and otherwise it is 1 - sqrt(variance)/mean in thousandths,
\* held to [0, 1].
C21_StabilityScoreInUnitRange ==
    result.kind = "stability" =>
        LET M == mean_rate(probe.rates)
            V == variance_calc(probe.rates)
            s == result.stability_score
        IN  /\ s >= 0
            /\ s <= 1000
            /\ result.pattern_variance >= 0
            /\ Len(probe.rates) >= MinWeeks
                 => /\ result.pattern_variance = V
                    /\ M = 0 => s = 0
                    /\ (M > 0 /\ s >= 1) => WithinRatio(V, M, 10005 - 10 * s)
                    /\ (M > 0 /\ s < 1000) => ~WithinRatio(V, M, 9995 - 10 * s)

\* three weeks of zero: the mean is 0 and the score is 0
C21_Witness ==
    /\ probe.kind = "series"
    /\ probe.rates = <<0, 0, 0>>
    /\ result.kind = "stability"
    /\ mean_rate(probe.rates) = 0
    /\ result.stability_score = 0
    /\ result.pattern_variance = 0

\* the stored edits of a pattern, of one user or (NullUser) of all
PatternEvents(p, u) ==
    { e \in BagToSet(edit_analyses) :
        e.edit_type = p /\ (u = NullUser \/ e.user_id = u) }

\* the weeks that hold at least two of the edits S, oldest first, each with
\* the mean score of its edits in S, in hundredths
MeansByWeek(table, S) ==
    LET inWeek(w) == { e \in S : week_start(e.created_at) = w }
        count(w) == BagSetSum(table, inWeek(w), FALSE)
        weeks == { w \in { week_start(e.created_at) : e \in S } : count(w) >= 2 }
        rank(w) == Cardinality({ v \in weeks : v <= w })
    IN  [ i \in 1..Cardinality(weeks) |->
            LET w == CHOOSE v \in weeks : rank(v) = i
            IN  RoundDiv(100 * BagSetSum(table, inWeek(w), TRUE), count(w)) ]

WeeklyMeans(S) == MeansByWeek(edit_analyses, S)

\* reading the weekly averages or the analysis writes nothing
ReadOnly ==
    result' /= result
        => /\ edit_analyses' = edit_analyses
           /\ learning_insights' = learning_insights

\* C22 as stated: the weekly averages are those of the weeks reaching into
\* the last 8 weeks that hold at least two edits of the pattern, each with
\* the mean score of that week's edits, oldest week first; no edits give the
\* empty sequence; the computation writes nothing.
C22_WeeklyMeansOfWholeWeeks ==
    /\ [](result.kind = "weekly" =>
            LET all == PatternEvents(result.pattern_value_param, result.user_id_param)
                S == { e \in all :
                         week_start(e.created_at) + 6 >= now - LookbackDays }
            IN  /\ result.weekly_rates = WeeklyMeans(S)
                /\ all = {} => result.weekly_rates = <<>>)
    /\ [][ReadOnly]_vars

\* C22 with the window applied to the edits: the edits of the pattern dated
\* within the last 8 weeks are grouped by week; the weeks holding at least
\* two of these edits are returned oldest first, each with the mean score of
\* these edits only, so the week the window starts in counts without its
\* older edits; no edits give the empty sequence; the computation writes
\* nothing.
C22_WeeklyMeansOfWindowEdits ==
    /\ [](result.kind = "weekly" =>
            LET all == PatternEvents(result.pattern_value_param, result.user_id_param)
                S == { e \in all : e.created_at >= now - LookbackDays }
            IN  /\ result.weekly_rates = WeeklyMeans(S)
                /\ result.stability.weekly_rates = WeeklyMeans(S)
                /\ all = {} => result.weekly_rates = <<>>)
    /\ [][ReadOnly]_vars

\* read on a Thursday: the oldest week is returned on its two edits of
\* Saturday, the edit of its Tuesday lies before the window
C22_Witness ==
    /\ now = 59
    /\ result.kind = "weekly"
    /\ result.pattern_value_param = "tone"
    /\ result.user_id_param = "u1"
    /\ result.weekly_rates = <<8500, 5500, 5500>>
    /\ \E e \in BagToSet(edit_analyses) : e.created_at = 1

\* the store after one more edit is recorded today
Recorded(store, p, u, sc) ==
    Replay(<< [ edit_type |-> p, success_score |-> sc, user_id |-> u,
                created_at |-> now ] >>, store)

\* the edits a step added to the log
AddedEdits == BagToSet(edit_analyses' (-) edit_analyses)

\* a step that stores an edit stores exactly one, keeps every edit that was
\* stored, and leaves the rows of all other pattern keys as they were
OnlyOwnKeyTouched ==
    edit_analyses' /= edit_analyses
        => /\ \A e \in BagToSet(edit_analyses) :
                CopiesIn(e, edit_analyses') >= CopiesIn(e, edit_analyses)
           /\ BagCardinality(edit_analyses') = BagCardinality(edit_analyses) + 1
           /\ \A e \in AddedEdits, q \in AllPatterns :
                q /= e.edit_type => learning_insights'[q] = learning_insights[q]

\* C23: recording an edit for one pattern key changes no row of another key
\* and no stored edit, the log growing by that one edit; two edits for
\* different keys give the same store in either order.
C23_OtherKeysUntouched ==
    /\ [](LET store == << edit_analyses, learning_insights >>
          IN  \A p, q \in KeyPatterns, u, v \in AllUsers, a, b \in Scores :
                p /= q
                  => Recorded(Recorded(store, p, u, a), q, v, b)
                       = Recorded(Recorded(store, q, v, b), p, u, a))
    /\ [][OnlyOwnKeyTouched]_vars

\* both keys have a row, and the second edit of one key came after the
\* first edit of the other
C23_Witness ==
    /\ probe = NoProbe
    /\ learning_insights["tone"] /= NoRow
    /\ learning_insights["content"] /= NoRow
    /\ learning_insights["tone"].frequency = 2
    /\ learning_insights["content"].frequency = 2
    /\ learning_insights["tone"].last_updated = 7
    /\ learning_insights["content"].first_occurrence = 0

\* C24: the enhanced confidence of every case lies within [0, 95], is the
\* value the rule gives (78, 95, 95 and 61 for the four listed cases), and
\* computing it leaves the stored confidence of every row as it was.
C24_EnhancedConfidenceIsReadOnlyView ==
    /\ [](result.kind = "enhanced" =>
            LET at(b, n, d, r) == /\ probe.baseConfidence = b
                                  /\ probe.sampleSize = n
                                  /\ probe.timeSpanDays = d
                                  /\ probe.successRate = r
            IN  /\ result.enhancedConfidence >= 0
                /\ result.enhancedConfidence <= 95
                /\ at(65, 5, 3, 8000) => result.enhancedConfidence = 78
                /\ at(70, 10, 7, 8500) => result.enhancedConfidence = 95
                /\ at(75, 20, 14, 9000) => result.enhancedConfidence = 95
                /\ at(60, 3, 2, 7000) => result.enhancedConfidence = 61
                /\ at(0, 1, 0, 0) => result.enhancedConfidence = 0)
    /\ [][result' /= result
            => /\ learning_insights' = learning_insights
               /\ edit_analyses' = edit_analyses]_vars

\* the stored row read: its confidence is still 58 while the view gives 68
C24_Witness ==
    /\ result.kind = "enhanced"
    /\ probe = [ kind |-> "enhanced" ] @@ RowCase(learning_insights["tone"])
    /\ learning_insights["tone"].confidence = 58
    /\ result.enhancedConfidence = 68

C26_NeverPending ==
    \A row \in StoredRows :
        /\ validation_status(row) /= "PENDING_VALIDATION"
        /\ validation_status(row) \in
             { "FULLY_VALIDATED", "THRESHOLD_MET_BUT_UNSTABLE",
               "PATTERN_DRIFT_DETECTED", "STABLE_BUT_INSUFFICIENT_DATA",
               "INSUFFICIENT_CONFIDENCE", "INSUFFICIENT_TIME_SPAN",
               "INSUFFICIENT_SAMPLES" }
        /\ validation_status(row) = "INSUFFICIENT_SAMPLES"
             => ~row.stability_validated

\* six steady edits over three weeks: stable, the threshold not met
C26_Witness ==
    /\ probe = NoProbe
    /\ learning_insights["tone"] /= NoRow
    /\ learning_insights["tone"].sample_size = 6
    /\ learning_insights["tone"].stability_validated
    /\ ~learning_insights["tone"].threshold_met
    /\ validation_status(learning_insights["tone"]) = "STABLE_BUT_INSUFFICIENT_DATA"

\* the weekly averages of user u's edits of pattern p in the last 8 weeks
UserMeansIn(table, p, u) ==
    MeansByWeek(table, { e \in BagToSet(table) :
                           /\ e.edit_type = p
                           /\ e.user_id = u
                           /\ e.created_at >= now - LookbackDays })

UserWeeklyMeans(p, u) == UserMeansIn(edit_analyses, p, u)

\* the edit just stored was by user u for pattern p: the stability columns
\* of p's row are the analysis of u's weekly averages alone, and fewer than
\* three such weeks leave the row at score 0.5, not validated
StabilityOfEditingUser ==
    \A e \in AddedEdits :
        LET row == learning_insights'[e.edit_type]
            rates == UserMeansIn(edit_analyses', e.edit_type, e.user_id)
        IN  /\ row.weekly_success_rates = rates
            /\ StabilityColumns(row) = analyze_rates(rates)
            /\ Len(rates) < 3
                 => /\ ~row.stability_validated
                    /\ row.stability_score = 500

\* C27: after an edit by user u of pattern P the stability columns of P's
\* row are the analysis of u's weekly averages only, while frequency, sample
\* size and confidence count the edits of all users; an edit by a user with
\* fewer than 3 qualifying weeks therefore puts stabilityValidated to false
\* and stabilityScore to 0.5, whatever the row held before.
C27_StabilityScopedToEditingUser ==
    /\ [](\A p \in MainPatterns :
            LET row == learning_insights[p]
                n == BagSetSum(edit_analyses, PatternEvents(p, NullUser), FALSE)
            IN  /\ row.frequency = n
                /\ row.sample_size = n
                /\ row.confidence = Min(90, 50 + 2 * (n - 1))
                /\ 2 * Abs(row.success_rate * n
                             - 100 * BagSetSum(edit_analyses,
                                               PatternEvents(p, NullUser), TRUE))
                     <= n * n)
    /\ [][StabilityOfEditingUser]_vars

\* user u2's first edit: u1's own weeks are still stable, the row is not
C27_Witness ==
    /\ probe = [ kind |-> "users" ]
    /\ learning_insights["tone"].frequency = 7
    /\ PatternEvents("tone", "u2") /= {}
    /\ analyze_rates(UserWeeklyMeans("tone", "u1")).is_stable
    /\ ~learning_insights["tone"].stability_validated
    /\ learning_insights["tone"].stability_score = 500
    /\ learning_insights["tone"].weekly_success_rates = <<>>

\* a step on the row of "tone": a new row takes the time of the insert as
\* firstOccurrence, an existing row keeps its firstOccurrence and its
\* timeSpanDays does not go down
FirstOccurrenceKept ==
    LET old == learning_insights["tone"]
        new == learning_insights'["tone"]
    IN  new /= old
          => IF old = NoRow
             THEN new.first_occurrence = now /\ new.time_span_days = 1
             ELSE /\ new.first_occurrence = old.first_occurrence
                  /\ new.time_span_days >= old.time_span_days

C29_PerfectOnlyWhenIdentical ==
    (Scored /\ probe.originalText /= probe.editedText)
        => /\ result.analysis.editPercentage > 0
           /\ result.analysis.successScore <= 75

WebhookCalls(email, userId) ==
    CopiesIn([ gmail_id |-> email, user_id |-> userId, via |-> "webhook" ], routed)

Marked(email, userId) ==
    \E r \in emails : /\ r.gmail_id = email
                      /\ r.user_id = userId
                      /\ r.webhook_processed

Handling(c, email, userId) ==
    /\ tx[c].pc /= "idle"
    /\ tx[c].gmail_id = email
    /\ tx[c].user_id = userId

\* a step that hands an email to the router hands over the email its worker
\* holds, which the save-and-mark step has marked for that user; a step that
\* ends in 'duplicate' or 'skipped' hands nothing over
RoutedOnlyAfterMark ==
    /\ \A email \in Mails, userId \in AllUsers :
        WebhookCalls(email, userId)' > WebhookCalls(email, userId) =>
            /\ Marked(email, userId)
            /\ \E c \in Procs : /\ Handling(c, email, userId)
                                /\ tx[c].pc = "routing"
                                /\ tx'[c].pc = "returned"
                                /\ tx'[c].status \in {"success", "error"}
    /\ \A c \in Procs :
        ( /\ tx'[c] /= tx[c]
          /\ tx'[c].pc = "returned"
          /\ tx'[c].status \in {"duplicate", "skipped"} ) => routed' = routed

====
